------------------------------ MODULE Spec2Model ------------------------------
(***************************************************************************)
(* Model of the comment-analysis pipeline of the hackernews repository:    *)
(* llm_integration/ollama_client.py (OllamaClient.embed / chat with their  *)
(* retry loops) and llm_integration/analysis.py (novelty_scores,           *)
(* classify_stance, controversy_scores, mmr, generate_summary,             *)
(* score_and_rank, analyze_comments).                                      *)
(*                                                                         *)
(* Floats are fixed-point integers: a value v in [0,1] is the integer      *)
(* v * SCALE.  A weight w is the integer w * 100.  NaN is a sentinel.      *)
(*                                                                         *)
(* A chat response is a sequence of tokens.  "{" and "}" are the brace     *)
(* characters, "txt" is prose that is not JSON, "fence" is a code-fence    *)
(* delimiter (three backticks), and a member token [k, t, v] is one        *)
(* complete member "k": v of a JSON object, t the JSON type of v.          *)
(***************************************************************************)
EXTENDS Integers, Sequences, FiniteSets, TLC

VARIABLES
    comments,       \* analyze_comments: the input list of comment dicts
    cfg,            \* analyze_comments: the Config it receives
    pc,             \* analyze_comments: position in the function body
    tries,          \* OllamaClient: outcome of each HTTP attempt of the current call
    calls,          \* log of the adapter calls issued (embed/chat), in order
    emb,            \* emb: the embedding matrix returned by embed_texts
    novelty,        \* novelty vector (one entry per embedded text)
    stance_records, \* stance_records built by the classification loop
    rep_idx,        \* rep_idx chosen by mmr
    result,         \* the returned dict, or NoResult
    error,          \* the exception analyze_comments raised, or "none"
    raw,            \* classify_stance harness: the chat response
    stanceOut,      \* classify_stance harness: what classify_stance produced
    rankIn,         \* score_and_rank harness: its arguments
    rankOut,        \* score_and_rank harness: what it returned
    args,           \* harness of the other functions: the arguments of the call
    ret             \* harness of the other functions: what the call returned

vars == <<comments, cfg, pc, tries, calls, emb, novelty, stance_records,
          rep_idx, result, error, raw, stanceOut, rankIn, rankOut, args, ret>>

pipeVars == <<comments, cfg, pc, tries, calls, emb, novelty, stance_records,
              rep_idx, result, error>>
stanceVars == <<raw, stanceOut>>
rankVars == <<rankIn, rankOut>>
fnVars == <<args, ret>>

-----------------------------------------------------------------------------
(* Bounds of the model *)

MaxComments == 2
MaxRespLen == 5
MaxRankLen == 3

(* Fixed-point scale of the float values *)
SCALE == 1000

NaN == 0 - (SCALE * SCALE)

NoResult == [kind |-> "none"]

-----------------------------------------------------------------------------
(* Small helpers *)

Min2(a, b) == IF a <= b THEN a ELSE b
Max2(a, b) == IF a >= b THEN a ELSE b

RECURSIVE SumSeq(_)
SumSeq(s) == IF s = <<>> THEN 0 ELSE Head(s) + SumSeq(Tail(s))

SeqMin(s) == CHOOSE x \in {s[i] : i \in DOMAIN s} : \A j \in DOMAIN s : x <= s[j]
SeqMax(s) == CHOOSE x \in {s[i] : i \in DOMAIN s} : \A j \in DOMAIN s : x >= s[j]

HasNaN(s) == \E i \in DOMAIN s : s[i] = NaN

RECURSIVE SeqsUpTo(_, _)
SeqsUpTo(S, n) ==
    IF n = 0 THEN {<<>>}
    ELSE LET shorter == SeqsUpTo(S, n - 1)
         IN  shorter \cup {Append(s, x) : s \in {t \in shorter : Len(t) = n - 1}, x \in S}


-----------------------------------------------------------------------------
(* Chat responses as token sequences; json.loads on them *)

Tok(k, t, v) == [k |-> k, t |-> t, v |-> v]

LB == Tok("{", "", "")
RB == Tok("}", "", "")
TXT == Tok("txt", "", "")

IsMember(tok) == tok.t # ""

(* The response tokens the stance harness draws from: braces, prose, and
   members with well-typed and ill-typed values. *)
StanceAlphabet ==
    { LB, RB, TXT,
      Tok("stance", "str", "support"), Tok("stance", "str", "maybe"),
      Tok("stance", "list", ""),
      Tok("intensity", "num", "9"), Tok("intensity", "str", "high"),
      Tok("reasons", "str", "why") }

(* str.find("{"): index of the first "{", 0 when there is none (Python -1) *)
FindFirst(text, tok) ==
    IF \E i \in DOMAIN text : text[i] = tok
    THEN CHOOSE i \in DOMAIN text :
            text[i] = tok /\ \A j \in DOMAIN text : text[j] = tok => i <= j
    ELSE 0

(* str.rfind("}"): index of the last "}", 0 when there is none (Python -1) *)
FindLast(text, tok) ==
    IF \E i \in DOMAIN text : text[i] = tok
    THEN CHOOSE i \in DOMAIN text :
            text[i] = tok /\ \A j \in DOMAIN text : text[j] = tok => j <= i
    ELSE 0

(* json.loads of a slice that starts with "{" and ends with "}": it decodes
   exactly when everything between the braces is a member; a repeated key
   keeps its last value.  The result is the dict, a function from the keys
   present to their value tokens. *)
JsonValid(slice) ==
    /\ Len(slice) >= 2
    /\ slice[1] = LB
    /\ slice[Len(slice)] = RB
    /\ \A i \in 2..(Len(slice) - 1) : IsMember(slice[i])

JsonLoads(slice) ==
    LET ks == {slice[i].k : i \in 2..(Len(slice) - 1)}
        last(k) == CHOOSE i \in 2..(Len(slice) - 1) :
                      slice[i].k = k /\ \A j \in 2..(Len(slice) - 1) : slice[j].k = k => j <= i
    IN  [k \in ks |-> slice[last(k)]]

(* a fallback with another intensity *)
FallbackDictOther ==
    [k \in {"stance", "intensity", "reasons"} |->
        CASE k = "stance" -> Tok("stance", "str", "neutral")
          [] k = "intensity" -> Tok("intensity", "num", "3")
          [] k = "reasons" -> Tok("reasons", "str", "fallback")]

FallbackDict ==
    [k \in {"stance", "intensity", "reasons"} |->
        CASE k = "stance" -> Tok("stance", "str", "neutral")
          [] k = "intensity" -> Tok("intensity", "num", "2")
          [] k = "reasons" -> Tok("reasons", "str", "fallback")]

_extract_json_line(text) ==
    LET start == FindFirst(text, LB)
        end == FindLast(text, RB)
    IN  IF start = 0 \/ end = 0 \/ end <= start
        THEN FallbackDict
        ELSE LET slice == SubSeq(text, start, end)
             IN  IF JsonValid(slice) THEN JsonLoads(slice) ELSE FallbackDict

(* dict.get(key, default) *)
DictGet(d, key, default) == IF key \in DOMAIN d THEN d[key] ELSE default

(* int(x) of a JSON value: a number converts, a non-numeric string raises
   ValueError, null or a list raises TypeError. *)
NumVal(v) ==
    CASE v = "0" -> 0 [] v = "1" -> 1 [] v = "2" -> 2 [] v = "3" -> 3
      [] v = "4" -> 4 [] v = "5" -> 5 [] v = "9" -> 9 [] v = "-3" -> 0 - 3
      [] OTHER -> 0

IntRaises(tok) ==
    CASE tok.t = "num" -> "none"
      [] tok.t = "str" -> "ValueError"
      [] OTHER -> "TypeError"

StanceRec(exc, stance, intensity, reason) ==
    [exc |-> exc, stance |-> stance, intensity |-> intensity, reason |-> reason]

(* classify_stance without the clamp of the intensity *)
classify_stanceNoClamp(rawResp) ==
    LET parsed == _extract_json_line(rawResp)
        st == DictGet(parsed, "stance", Tok("stance", "str", "neutral"))
        it == DictGet(parsed, "intensity", Tok("intensity", "num", "2"))
        rs == DictGet(parsed, "reasons", Tok("reasons", "str", "fallback"))
    IN  IF IntRaises(it) # "none"
        THEN StanceRec(IntRaises(it), "", 0, "")
        ELSE IF st.t = "list"
        THEN StanceRec("TypeError", "", 0, "")
        ELSE LET stance == IF st.t = "str" /\ st.v \in {"support", "oppose", "neutral"}
                           THEN st.v ELSE "neutral"
             IN  StanceRec("none", stance, NumVal(it.v), rs.v)

(* classify_stance, from the chat response on *)
classify_stance(rawResp) ==
    LET parsed == _extract_json_line(rawResp)
        st == DictGet(parsed, "stance", Tok("stance", "str", "neutral"))
        it == DictGet(parsed, "intensity", Tok("intensity", "num", "2"))
        rs == DictGet(parsed, "reasons", Tok("reasons", "str", "fallback"))
    IN  IF IntRaises(it) # "none"
        THEN StanceRec(IntRaises(it), "", 0, "")
        ELSE IF st.t = "list"
        THEN StanceRec("TypeError", "", 0, "")
        ELSE LET stance == IF st.t = "str" /\ st.v \in {"support", "oppose", "neutral"}
                           THEN st.v ELSE "neutral"
                 intensity == Max2(1, Min2(5, NumVal(it.v)))
             IN  StanceRec("none", stance, intensity, rs.v)

-----------------------------------------------------------------------------
(* Vectors and cosine similarity (sklearn.metrics.pairwise.cosine_similarity) *)

(* The embedding vectors the service may return.  Components are multiples
   of 12, so that the mean of up to four of them is an integer vector. *)
Vecs == { <<12, 0>>, <<36, 48>> }

Dot(a, b) == SumSeq([i \in DOMAIN a |-> a[i] * b[i]])

RECURSIVE ISqrtIn(_, _, _)
ISqrtIn(x, lo, hi) ==
    IF lo >= hi THEN lo
    ELSE LET mid == (lo + hi + 1) \div 2
         IN  IF mid * mid <= x THEN ISqrtIn(x, mid, hi) ELSE ISqrtIn(x, lo, mid - 1)

(* floor of the square root *)
ISqrt(x) == ISqrtIn(x, 0, Min2(x, 46340))

(* cosine similarity of two vectors; sklearn's normalisation leaves a zero
   vector as it is, so its similarity to anything is 0 *)
Cos(a, b) ==
    LET na == Dot(a, a)
        nb == Dot(b, b)
    IN  IF na = 0 \/ nb = 0 THEN 0
        ELSE (Dot(a, b) * SCALE) \div ISqrt(na * nb)

(* np.mean(emb, axis=0) *)
Centroid(m) ==
    [d \in DOMAIN m[1] |-> SumSeq([i \in DOMAIN m |-> m[i][d]]) \div Len(m)]

(* index of the first maximum: np.argmax *)
ArgMax(s) == CHOOSE i \in DOMAIN s :
                /\ \A j \in DOMAIN s : s[j] <= s[i]
                /\ \A j \in DOMAIN s : s[j] = s[i] => i <= j

(* the sequence without its i-th element *)
DropAt(s, i) == SubSeq(s, 1, i - 1) \o SubSeq(s, i + 1, Len(s))

(* sum of the cnt largest elements of s *)
RECURSIVE TopSum(_, _)
TopSum(s, cnt) ==
    IF cnt <= 0 \/ s = <<>> THEN 0
    ELSE LET i == ArgMax(s) IN s[i] + TopSum(DropAt(s, i), cnt - 1)

(* a normalisation that divides by the spread without subtracting the
   minimum *)
MinMaxNormNoShift(v) ==
    LET min_v == SeqMin(v)
        max_v == SeqMax(v)
    IN  IF max_v - min_v < 1
        THEN [i \in DOMAIN v |-> 0]
        ELSE [i \in DOMAIN v |-> (v[i] * SCALE) \div (max_v - min_v)]

(* min-max normalisation as novelty_scores, controversy_scores and
   score_and_rank write it: zeros when the spread is below epsilon *)
MinMaxNorm(v) ==
    LET min_v == SeqMin(v)
        max_v == SeqMax(v)
    IN  IF max_v - min_v < 1
        THEN [i \in DOMAIN v |-> 0]
        ELSE [i \in DOMAIN v |-> ((v[i] - min_v) * SCALE) \div (max_v - min_v)]

-----------------------------------------------------------------------------
(* novelty_scores *)

novelty_scores(m, k) ==
    LET n == Len(m)
        k_eff == Min2(k, Max2(1, n - 1))
        \* row i of sim without its diagonal entry (which is -inf)
        others(i) == [j \in 1..(n - 1) |-> Cos(m[i], m[IF j < i THEN j ELSE j + 1])]
        \* np.sort(sim, axis=1)[:, -k_eff:] : with k_eff > 0 the k_eff largest
        \* (k_eff <= n-1, so never the -inf); with k_eff = 0 the whole row,
        \* -inf included; with k_eff < 0 all but the -k_eff smallest
        cnt == IF k_eff > 0 THEN k_eff ELSE n + k_eff
        wholeRow == k_eff = 0
        emptySlice == k_eff < 0 /\ cnt <= 0
        avg_sim(i) == TopSum(others(i), cnt) \div cnt
    IN  IF n = 0 THEN <<>>
        ELSE IF n = 1 THEN <<0>>
        ELSE IF wholeRow \/ emptySlice
        THEN \* mean -inf (or the mean of nothing): inf - inf and nan - nan are nan
             [i \in 1..n |-> NaN]
        ELSE MinMaxNorm([i \in 1..n |-> SCALE - avg_sim(i)])

-----------------------------------------------------------------------------
(* controversy_scores *)

Count(s, x) == Cardinality({i \in DOMAIN s : s[i] = x})

(* an entropy that is maximal when all votes are on one side *)
EntropyOneSidedMax(sup, opp) ==
    IF Min2(sup, opp) = 0 THEN SCALE ELSE (900 * SCALE) \div 1000

(* SCALE * (h(p_support) + h(p_oppose)), h(p) = -p * log2(p), for the counts
   the model reaches; values of np.log2 rounded to three decimals *)
Entropy(sup, opp) ==
    LET lo == Min2(sup, opp)
        tot == sup + opp
        milli == CASE lo = 0 -> 0
                   [] 2 * lo = tot -> 1000
                   [] lo = 1 /\ tot = 3 -> 918
                   [] lo = 1 /\ tot = 4 -> 811
                   [] lo = 1 /\ tot = 5 -> 722
                   [] lo = 2 /\ tot = 5 -> 971
                   [] OTHER -> 900
    IN  (milli * SCALE) \div 1000

Clamp15(i) == Max2(1, Min2(5, i))

(* the polarization entropy over support and oppose only *)
entropy_term(stances) ==
    LET support_count == Count(stances, "support")
        oppose_count == Count(stances, "oppose")
        total == support_count + oppose_count
    IN  IF total = 0 THEN 0 ELSE Entropy(support_count, oppose_count)

controversy_scores(stances, intensities) ==
    LET n == Len(stances)
        support_count == Count(stances, "support")
        oppose_count == Count(stances, "oppose")
        total == support_count + oppose_count
        entropy == entropy_term(stances)
        avg_intensity ==
            (SumSeq([i \in DOMAIN intensities |-> Clamp15(intensities[i])]) * SCALE)
                \div (n * 5)
        base == (entropy + avg_intensity) \div 2
        counts(s) == CASE s = "support" -> support_count
                       [] s = "oppose" -> oppose_count
                       [] OTHER -> n - total
        bonus(i) == ((n - counts(stances[i])) * Clamp15(intensities[i]) * SCALE)
                        \div (Max2(1, n) * 5)
        per_comment == [i \in 1..n |-> (base + bonus(i)) \div 2]
    IN  IF n = 0 THEN <<>> ELSE MinMaxNorm(per_comment)

-----------------------------------------------------------------------------
(* mmr *)

(* lambda_param = 0.65 in hundredths *)
LambdaPct == 65

(* a loop that does not force the selected indices to -inf *)
RECURSIVE MmrLoopReselect(_, _, _, _)
MmrLoopReselect(sim_to_query, cands, selected, k) ==
    LET n == Len(cands)
        remaining == (1..n) \ {selected[j] : j \in DOMAIN selected}
    IN  IF remaining = {} \/ Len(selected) >= k THEN selected
        ELSE IF selected = <<>>
        THEN MmrLoopReselect(sim_to_query, cands, <<ArgMax(sim_to_query)>>, k)
        ELSE LET max_sim_selected(i) ==
                     SeqMax([j \in DOMAIN selected |-> Cos(cands[i], cands[selected[j]])])
                 score(i) == LambdaPct * sim_to_query[i]
                                 - (100 - LambdaPct) * max_sim_selected(i)
                 best == CHOOSE i \in 1..n :
                            /\ \A j \in 1..n : score(j) <= score(i)
                            /\ \A j \in 1..n : score(j) = score(i) => i <= j
             IN  MmrLoopReselect(sim_to_query, cands, Append(selected, best), k)

(* a loop that scores by similarity to the query alone *)
RECURSIVE MmrLoopNoPenalty(_, _, _, _)
MmrLoopNoPenalty(sim_to_query, cands, selected, k) ==
    LET n == Len(cands)
        remaining == (1..n) \ {selected[j] : j \in DOMAIN selected}
    IN  IF remaining = {} \/ Len(selected) >= k THEN selected
        ELSE LET best == CHOOSE i \in remaining :
                            /\ \A j \in remaining : sim_to_query[j] <= sim_to_query[i]
                            /\ \A j \in remaining : sim_to_query[j] = sim_to_query[i] => i <= j
             IN  MmrLoopNoPenalty(sim_to_query, cands, Append(selected, best), k)

RECURSIVE MmrLoop(_, _, _, _)
MmrLoop(sim_to_query, cands, selected, k) ==
    LET n == Len(cands)
        remaining == (1..n) \ {selected[j] : j \in DOMAIN selected}
    IN  IF remaining = {} \/ Len(selected) >= k THEN selected
        ELSE IF selected = <<>>
        THEN MmrLoop(sim_to_query, cands, <<ArgMax(sim_to_query)>>, k)
        ELSE LET max_sim_selected(i) ==
                     SeqMax([j \in DOMAIN selected |-> Cos(cands[i], cands[selected[j]])])
                 score(i) == LambdaPct * sim_to_query[i]
                                 - (100 - LambdaPct) * max_sim_selected(i)
                 \* selected indices are forced to -inf: the argmax runs over the rest
                 best == CHOOSE i \in remaining :
                            /\ \A j \in remaining : score(j) <= score(i)
                            /\ \A j \in remaining : score(j) = score(i) => i <= j
             IN  MmrLoop(sim_to_query, cands, Append(selected, best), k)

mmr(query_vec, candidate_vecs, k) ==
    IF Len(candidate_vecs) = 0 THEN <<>>
    ELSE MmrLoop([i \in DOMAIN candidate_vecs |-> Cos(candidate_vecs[i], query_vec)],
                 candidate_vecs, <<>>, k)

-----------------------------------------------------------------------------
(* _strip_code_fences, _parse_summary_output, generate_summary *)

FENCE == Tok("fence", "", "")

(* re.sub with the non-greedy pattern fence-anything-fence: every fence pair
   goes, together with what stands between the two delimiters; a fence with
   no partner stays *)
RECURSIVE _strip_code_fences(_)
_strip_code_fences(text) ==
    LET open == FindFirst(text, FENCE)
        rest == SubSeq(text, open + 1, Len(text))
        close == FindFirst(rest, FENCE)
    IN  IF open = 0 \/ close = 0 THEN text
        ELSE SubSeq(text, 1, open - 1)
                \o _strip_code_fences(SubSeq(rest, close + 1, Len(rest)))

(* a list value holds one item, its v, or nothing when v is "" *)
ListItems(tok) == IF tok.t = "list" /\ tok.v # "" THEN <<tok.v>> ELSE <<>>

_parse_summary_output(text) ==
    LET cleaned == _strip_code_fences(text)
        parsed == _extract_json_line(cleaned)
        none == Tok("", "null", "")
        es == DictGet(parsed, "executive_summary", none)
        kp == DictGet(parsed, "key_points", none)
        ns == DictGet(parsed, "next_steps", none)
    IN  [executive_summary |-> IF es.t = "str" THEN es.v ELSE "",
         key_points |-> ListItems(kp),
         next_steps |-> ListItems(ns)]

(* the text of a token and of a response *)
TokText(tok) ==
    CASE tok = LB -> "{"
      [] tok = RB -> "}"
      [] tok = TXT -> "text"
      [] tok = FENCE -> "'''"
      [] OTHER -> tok.k \o ":" \o tok.v

RECURSIVE ContentText(_)
ContentText(content) ==
    IF content = <<>> THEN ""
    ELSE TokText(Head(content)) \o ContentText(Tail(content))

(* whether _parse_summary_output raises on a response: _extract_json_line
   catches what json.loads raises and returns a dict in every case, and the
   str() and strip() calls on its values cannot fail, so it never does *)
ParseRaises(content) == FALSE

(* generate_summary, from the chat response on: the parsed summary, or in
   the except branch the raw text as the summary *)
generate_summary(content) ==
    IF ParseRaises(content)
    THEN [executive_summary |-> ContentText(content), key_points |-> <<>>,
          next_steps |-> <<>>]
    ELSE _parse_summary_output(content)

-----------------------------------------------------------------------------
(* score_and_rank *)

(* weights argument: w the numbers in hundredths, numeric FALSE when its
   first element is not a number *)
Weights(w, numeric) == [w |-> w, numeric |-> numeric]

DefaultWeights == Weights(<<45, 45, 10>>, TRUE)

(* Popularity column: the upvotes, NaN (key missing or null) filled with 0,
   min-max normalised; zeros when no comment carries upvotes *)
Popularity(rows) ==
    IF rows = <<>> THEN <<>>
    ELSE IF \E i \in DOMAIN rows : rows[i].upvotes # NaN
    THEN MinMaxNorm([i \in DOMAIN rows |->
                        IF rows[i].upvotes = NaN THEN 0 ELSE rows[i].upvotes])
    ELSE [i \in DOMAIN rows |-> 0]

(* the exception score_and_rank raises before it sorts, or "none":
   a column of the wrong length is a ValueError, a weight that is not a
   number a TypeError *)
RankRaises(rows, nov, con, weights) ==
    IF Len(rows) > 0 /\ Len(nov) # Len(rows) THEN "ValueError"
    ELSE IF Len(rows) > 0 /\ Len(con) # Len(rows) THEN "ValueError"
    ELSE IF ~weights.numeric THEN "TypeError"
    ELSE "none"

(* a score that takes the first weight for controversy and the second for
   novelty *)
ScoredSwapped(rows, nov, con, weights) ==
    LET padded == weights.w \o <<0, 0, 0>>
        w1 == padded[2]
        w2 == padded[1]
        w3 == padded[3]
        pop == Popularity(rows)
        score(i) == IF nov[i] = NaN \/ con[i] = NaN \/ pop[i] = NaN THEN NaN
                    ELSE w1 * nov[i] + w2 * con[i] + w3 * pop[i]
    IN  [i \in DOMAIN rows |->
            [c |-> rows[i], novelty |-> nov[i], controversy |-> con[i],
             popularity |-> pop[i], must_read_score |-> score(i)]]

(* the frame with its novelty, controversy, popularity and must_read_score
   columns, before sorting *)
Scored(rows, nov, con, weights) ==
    LET padded == weights.w \o <<0, 0, 0>>
        w1 == padded[1]
        w2 == padded[2]
        w3 == padded[3]
        pop == Popularity(rows)
        score(i) == IF nov[i] = NaN \/ con[i] = NaN \/ pop[i] = NaN THEN NaN
                    ELSE w1 * nov[i] + w2 * con[i] + w3 * pop[i]
    IN  [i \in DOMAIN rows |->
            [c |-> rows[i], novelty |-> nov[i], controversy |-> con[i],
             popularity |-> pop[i], must_read_score |-> score(i)]]

Perms(n) == {p \in [1..n -> 1..n] : \A i, j \in 1..n : p[i] = p[j] => i = j}

(* df.sort_values(by=["must_read_score"], ascending=False): kind defaults
   to "quicksort", which is not stable, so rows of equal score come out in
   any order; NaN scores go last, in input order *)
SortOrders(scored) ==
    {p \in Perms(Len(scored)) :
        \A i, j \in DOMAIN scored : i < j =>
            LET a == scored[p[i]].must_read_score
                b == scored[p[j]].must_read_score
            IN  IF a = NaN THEN b = NaN /\ p[i] < p[j]
                ELSE b = NaN \/ a >= b}

(* head that keeps one row too many *)
DfHeadOffByOne(df, topk) == SubSeq(df, 1, Min2(topk + 1, Len(df)))

(* df.head(topk): the first topk rows, all but the last -topk when topk < 0 *)
DfHead(df, topk) ==
    IF topk >= 0 THEN SubSeq(df, 1, Min2(topk, Len(df)))
    ELSE SubSeq(df, 1, Max2(0, Len(df) + topk))

RankResult(exc, all, top) == [exc |-> exc, all |-> all, top |-> top]

(* every (df_sorted, top_df) score_and_rank can return on these arguments *)
score_and_rank(rows, nov, con, weights, topk) ==
    IF RankRaises(rows, nov, con, weights) # "none"
    THEN {RankResult(RankRaises(rows, nov, con, weights), <<>>, <<>>)}
    ELSE LET scored == Scored(rows, nov, con, weights)
         IN  { LET df_sorted == [i \in DOMAIN scored |-> scored[p[i]]]
               IN  RankResult("none", df_sorted, DfHead(df_sorted, topk))
               : p \in SortOrders(scored) }

-----------------------------------------------------------------------------
(* Harness of classify_stance: a response is drawn, classify_stance is
   applied to it. *)

NotRun == StanceRec("notrun", "", 0, "")

NotRanked == RankResult("notrun", <<>>, <<>>)

(* Config: the fields analyze_comments reads besides the host and model names *)
Config(topk, max_summary_comments, weights) ==
    [topk |-> topk, max_summary_comments |-> max_summary_comments, weights |-> weights]

InitPipeIdle ==
    /\ comments = <<>>
    /\ cfg = Config(1, 1, Weights(<<>>, TRUE))
    /\ pc = "off"
    /\ tries = <<>>
    /\ calls = <<>>
    /\ emb = <<>>
    /\ novelty = <<>>
    /\ stance_records = <<>>
    /\ rep_idx = <<>>
    /\ result = NoResult
    /\ error = "none"

InitRankIdle ==
    /\ rankIn = <<>>
    /\ rankOut = NotRanked

InitStanceIdle ==
    /\ raw = <<>>
    /\ stanceOut = NotRun

(* a call that has not returned, and what a returned call left *)
NotCalled == [done |-> FALSE, exc |-> "none", v |-> <<>>]
Returned(v) == [done |-> TRUE, exc |-> "none", v |-> v]
Raised(exc) == [done |-> TRUE, exc |-> exc, v |-> <<>>]

InitFnIdle ==
    /\ args = <<>>
    /\ ret = NotCalled

InitStance ==
    /\ InitPipeIdle
    /\ InitRankIdle
    /\ InitFnIdle
    /\ raw \in SeqsUpTo(StanceAlphabet, MaxRespLen)
    /\ stanceOut = NotRun

ClassifyStance ==
    /\ stanceOut = NotRun
    /\ stanceOut' = classify_stance(raw)
    /\ UNCHANGED <<raw, pipeVars, rankVars, fnVars>>

NextStance == ClassifyStance

SpecStance == InitStance /\ [][NextStance]_vars

-----------------------------------------------------------------------------
(* Harness of score_and_rank: arguments are drawn, score_and_rank is applied
   to them. *)

Row(id, text, upvotes) == [id |-> id, text |-> text, upvotes |-> upvotes]

RankRows(n) == {[i \in 1..n |-> Row(i, "a", u[i])] : u \in [1..n -> {NaN, 2}]}

RankInputs ==
    UNION { [comments : RankRows(n),
             novelty : [1..n -> {0, SCALE}],
             controversy : [1..n -> {0, SCALE}],
             weights : {DefaultWeights, Weights(<<100, 0, 0>>, TRUE),
                        Weights(<<0, 100>>, TRUE)},
             topk : {1, 2}] : n \in 0..MaxRankLen }

InitRank ==
    /\ InitPipeIdle
    /\ InitStanceIdle
    /\ InitFnIdle
    /\ rankIn \in RankInputs
    /\ rankOut = NotRanked

ScoreAndRank ==
    /\ rankOut = NotRanked
    /\ rankOut' \in score_and_rank(rankIn.comments, rankIn.novelty, rankIn.controversy,
                                   rankIn.weights, rankIn.topk)
    /\ UNCHANGED <<rankIn, pipeVars, stanceVars, fnVars>>

NextRank == ScoreAndRank

SpecRank == InitRank /\ [][NextRank]_vars

-----------------------------------------------------------------------------
(* analyze_comments over OllamaClient *)

(* retries=2 of OllamaClient.embed and OllamaClient.chat *)
Retries == 2

(* What one requests.post of the retry loop can end in: a response that
   decodes, a timeout, or an HTTP 4xx status (raise_for_status raises). *)
Failures == {"timeout", "rejected"}

(* a test for the key alone, which takes "" and null for text *)
HasTextKeyOnly(c) == c.text # "ABSENT"

(* a comment's text: a string, "" (empty), null, or no "text" key *)
HasText(c) == c.text \notin {"", "NULL", "ABSENT"}

CommentVals ==
    { [text |-> "a", upvotes |-> 1], [text |-> "a", upvotes |-> 0 - 1],
      [text |-> "", upvotes |-> 3], [text |-> "NULL", upvotes |-> NaN],
      [text |-> "ABSENT", upvotes |-> 0] }

Configs ==
    { Config(1, 1, Weights(<<>>, TRUE)),
      Config(2, 2, Weights(<<100, 0, 0>>, TRUE)),
      Config(0, 1, Weights(<<>>, TRUE)),
      Config(0 - 1, 2, Weights(<<>>, TRUE)),
      Config(1, 2, Weights(<<100>>, TRUE)),
      Config(2, 2, Weights(<<100, 0, 0>>, FALSE)) }

(* the chat responses the service gives to a classification prompt *)
StanceResponses ==
    { <<LB, Tok("stance", "str", "support"), Tok("intensity", "num", "9"),
        Tok("reasons", "str", "why"), RB>>,
      <<LB, Tok("stance", "str", "oppose"), Tok("intensity", "num", "3"),
        Tok("reasons", "str", "why"), RB>>,
      <<TXT>>,
      <<LB, Tok("stance", "str", "support"), Tok("intensity", "str", "high"),
        Tok("reasons", "str", "why"), RB>> }

(* the chat responses the service gives to the summary prompt *)
SummaryResponses ==
    { <<LB, Tok("executive_summary", "str", "sum"), Tok("key_points", "list", "pt"),
        Tok("next_steps", "list", "step"), RB>>,
      <<TXT>>,
      <<FENCE, LB, Tok("executive_summary", "str", "sum"), RB, FENCE>> }

(* texts = [c.get("text", "") for c in comments if c.get("text")], by index *)
RECURSIVE TextIdx(_, _)
TextIdx(cs, i) ==
    IF i > Len(cs) THEN <<>>
    ELSE (IF HasText(cs[i]) THEN <<i>> ELSE <<>>) \o TextIdx(cs, i + 1)

NumTexts == Len(TextIdx(comments, 1))

ConfigUsed == [topk |-> cfg.topk, max_summary_comments |-> cfg.max_summary_comments]

EmptySummary == [executive_summary |-> "", key_points |-> <<>>, next_steps |-> <<>>]

Result(summary, top, all) ==
    [kind |-> "result", summary |-> summary, top_comments |-> top,
     all_comments |-> all, config_used |-> ConfigUsed]

Call(op, idx) == [op |-> op, idx |-> idx]

(* the call log after an attempt: a call is logged at its first attempt *)
Logged(op, idx) == IF tries = <<>> THEN Append(calls, Call(op, idx)) ELSE calls

(* a retry loop that starts over after its last attempt instead of raising *)
AttemptFailsStartsOver(f) ==
    /\ tries' = IF Len(tries) + 1 = Retries + 1 THEN <<>> ELSE Append(tries, f)
    /\ UNCHANGED <<pc, error>>

(* a retry loop that runs once more than retries + 1 *)
AttemptFailsOneMore(f) ==
    /\ tries' = Append(tries, f)
    /\ IF Len(tries) + 1 = Retries + 2
       THEN pc' = "failed" /\ error' = "RuntimeError"
       ELSE UNCHANGED <<pc, error>>

(* one failed attempt of the retry loop: the exception is caught whatever it
   is; after retries + 1 failures the call raises RuntimeError, which
   nothing in analyze_comments catches *)
AttemptFails(f) ==
    /\ tries' = Append(tries, f)
    /\ IF Len(tries) + 1 = Retries + 1
       THEN pc' = "failed" /\ error' = "RuntimeError"
       ELSE UNCHANGED <<pc, error>>

InitPipe ==
    /\ InitStanceIdle
    /\ InitRankIdle
    /\ InitFnIdle
    /\ comments \in SeqsUpTo(CommentVals, MaxComments)
    /\ cfg \in Configs
    /\ pc = "idle"
    /\ tries = <<>>
    /\ calls = <<>>
    /\ emb = <<>>
    /\ novelty = <<>>
    /\ stance_records = <<>>
    /\ rep_idx = <<>>
    /\ result = NoResult
    /\ error = "none"

(* analyze_comments without its shortcut *)
StartNoShortcut ==
    /\ pc = "idle"
    /\ pc' = "embed"
    /\ UNCHANGED <<comments, cfg, tries, calls, emb, novelty, stance_records,
                   rep_idx, result, error, stanceVars, rankVars, fnVars>>

(* analyze_comments up to the embedding call: the shortcut when no comment
   has text *)
Start ==
    /\ pc = "idle"
    /\ IF NumTexts = 0
       THEN /\ pc' = "done"
            /\ result' = Result(EmptySummary, <<>>, <<>>)
       ELSE /\ pc' = "embed"
            /\ UNCHANGED result
    /\ UNCHANGED <<comments, cfg, tries, calls, emb, novelty, stance_records,
                   rep_idx, error, stanceVars, rankVars, fnVars>>

(* one attempt of client.embed; on success embed_texts returns the matrix
   and novelty_scores runs on it *)
EmbedAttempt ==
    /\ pc = "embed"
    /\ calls' = Logged("embed", 0)
    /\ \/ \E f \in Failures :
            /\ AttemptFails(f)
            /\ UNCHANGED <<emb, novelty>>
       \/ \E e \in [1..NumTexts -> Vecs] :
            /\ emb' = e
            /\ novelty' = novelty_scores(e, Min2(cfg.topk, 10))
            /\ tries' = <<>>
            /\ pc' = "classify"
            /\ UNCHANGED error
    /\ UNCHANGED <<comments, cfg, stance_records, rep_idx, result, stanceVars, rankVars, fnVars>>

(* the record the loop appends for a comment without text *)
TextlessRecord == StanceRec("none", "neutral", 2, "")

(* the classification loop at a comment without text: no call *)
ClassifyTextless ==
    /\ pc = "classify"
    /\ Len(stance_records) < Len(comments)
    /\ ~HasText(comments[Len(stance_records) + 1])
    /\ stance_records' = Append(stance_records, TextlessRecord)
    /\ UNCHANGED <<comments, cfg, pc, tries, calls, emb, novelty, rep_idx, result,
                   error, stanceVars, rankVars, fnVars>>

(* the classification loop at a comment with text: one attempt of the
   client.chat of classify_stance; on success the response is parsed *)
ClassifyAttempt ==
    /\ pc = "classify"
    /\ Len(stance_records) < Len(comments)
    /\ HasText(comments[Len(stance_records) + 1])
    /\ calls' = Logged("classify", Len(stance_records) + 1)
    /\ \/ \E f \in Failures :
            /\ AttemptFails(f)
            /\ UNCHANGED stance_records
       \/ \E r \in StanceResponses :
            LET res == classify_stance(r)
            IN  /\ tries' = <<>>
                /\ IF res.exc # "none"
                   THEN /\ pc' = "failed"
                        /\ error' = res.exc
                        /\ UNCHANGED stance_records
                   ELSE /\ stance_records' = Append(stance_records, res)
                        /\ UNCHANGED <<pc, error>>
    /\ UNCHANGED <<comments, cfg, emb, novelty, rep_idx, result, stanceVars, rankVars, fnVars>>

(* a selection that does not wait for the loop to end *)
SelectEarly ==
    /\ pc = "classify"
    /\ rep_idx' = mmr(Centroid(emb), emb, Min2(cfg.max_summary_comments, NumTexts))
    /\ pc' = "summary"
    /\ UNCHANGED <<comments, cfg, tries, calls, emb, novelty, stance_records, result,
                   error, stanceVars, rankVars, fnVars>>

(* after the loop: the centroid and the representative selection *)
Select ==
    /\ pc = "classify"
    /\ Len(stance_records) = Len(comments)
    /\ rep_idx' = mmr(Centroid(emb), emb, Min2(cfg.max_summary_comments, NumTexts))
    /\ pc' = "summary"
    /\ UNCHANGED <<comments, cfg, tries, calls, emb, novelty, stance_records, result,
                   error, stanceVars, rankVars, fnVars>>

(* merged_comments: zip stops at the shortest of comments, stance_records,
   novelty and controversy *)
Merged(con) ==
    LET n == Min2(Min2(Len(comments), Len(stance_records)), Min2(Len(novelty), Len(con)))
    IN  [i \in 1..n |->
            [id |-> i, text |-> comments[i].text, upvotes |-> comments[i].upvotes,
             stance |-> stance_records[i].stance,
             intensity |-> stance_records[i].intensity,
             reason |-> stance_records[i].reason]]

(* one attempt of the client.chat of generate_summary; on success the
   summary is parsed, the comments are merged and ranked and the result is
   returned *)
SummaryAttempt ==
    /\ pc = "summary"
    /\ calls' = Logged("summary", 0)
    /\ \/ \E f \in Failures :
            /\ AttemptFails(f)
            /\ UNCHANGED result
       \/ \E r \in SummaryResponses :
            LET summary_dict == generate_summary(r)
                controversy ==
                    controversy_scores([i \in DOMAIN stance_records |-> stance_records[i].stance],
                                       [i \in DOMAIN stance_records |-> stance_records[i].intensity])
                weights == IF cfg.weights.w = <<>> THEN DefaultWeights ELSE cfg.weights
            IN  \E ranked \in score_and_rank(Merged(controversy), novelty, controversy,
                                             weights, cfg.topk) :
                    /\ tries' = <<>>
                    /\ IF ranked.exc # "none"
                       THEN /\ pc' = "failed"
                            /\ error' = ranked.exc
                            /\ UNCHANGED result
                       ELSE /\ pc' = "done"
                            /\ result' = Result(summary_dict, ranked.top, ranked.all)
                            /\ UNCHANGED error
    /\ UNCHANGED <<comments, cfg, emb, novelty, stance_records, rep_idx, stanceVars, rankVars, fnVars>>

Next ==
    \/ Start
    \/ EmbedAttempt
    \/ ClassifyTextless
    \/ ClassifyAttempt
    \/ Select
    \/ SummaryAttempt

Spec == InitPipe /\ [][Next]_vars

-----------------------------------------------------------------------------
(* Harness of the classification loop's body: a comment and a chat response
   are drawn, the body of the loop of analyze_comments produces the record. *)

MaxMembers == 3

(* the members a stance object may hold *)
MemberAlphabet ==
    { Tok("stance", "str", "support"), Tok("stance", "str", "oppose"),
      Tok("stance", "str", "neutral"), Tok("stance", "str", "maybe"),
      Tok("stance", "null", ""), Tok("stance", "list", ""),
      Tok("intensity", "num", "0"), Tok("intensity", "num", "1"),
      Tok("intensity", "num", "3"), Tok("intensity", "num", "5"),
      Tok("intensity", "num", "9"), Tok("intensity", "num", "-3"),
      Tok("intensity", "str", "high"), Tok("intensity", "null", ""),
      Tok("reasons", "str", "why") }

(* the responses: prose without an object, or an object of members *)
RecordResponses ==
    {<<TXT>>} \cup {<<LB>> \o m \o <<RB>> : m \in SeqsUpTo(MemberAlphabet, MaxMembers)}

(* one pass of the loop body: the record appended, or the exception *)
stance_record(c, rawResp) ==
    IF ~HasText(c)
    THEN Returned(TextlessRecord)
    ELSE LET res == classify_stance(rawResp)
         IN  IF res.exc # "none" THEN Raised(res.exc) ELSE Returned(res)

InitRecord ==
    /\ InitPipeIdle
    /\ InitRankIdle
    /\ InitStanceIdle
    /\ args \in [c : {[text |-> "a", upvotes |-> 1], [text |-> "", upvotes |-> 1],
                      [text |-> "NULL", upvotes |-> 1]},
                 raw : RecordResponses]
    /\ ret = NotCalled

StanceRecord ==
    /\ ret = NotCalled
    /\ ret' = stance_record(args.c, args.raw)
    /\ UNCHANGED <<args, pipeVars, stanceVars, rankVars>>

NextRecord == StanceRecord

SpecRecord == InitRecord /\ [][NextRecord]_vars

-----------------------------------------------------------------------------
(* Harness of novelty_scores: an embedding batch and a k are drawn,
   novelty_scores is applied to them. *)

MaxBatch == 3

(* embedding vectors, the zero vector among them *)
BatchVecs == { <<0, 0>>, <<12, 0>>, <<36, 48>> }

(* the k asked for: min(cfg.topk, 10) of any integer topk *)
NoveltyKs == {0 - 1, 0, 1, 2, 10}

InitNovelty ==
    /\ InitPipeIdle
    /\ InitRankIdle
    /\ InitStanceIdle
    /\ args \in [emb : SeqsUpTo(BatchVecs, MaxBatch), k : NoveltyKs]
    /\ ret = NotCalled

NoveltyScores ==
    /\ ret = NotCalled
    /\ ret' = Returned(novelty_scores(args.emb, args.k))
    /\ UNCHANGED <<args, pipeVars, stanceVars, rankVars>>

NextNovelty == NoveltyScores

SpecNovelty == InitNovelty /\ [][NextNovelty]_vars

-----------------------------------------------------------------------------
(* analyze_comments from its last call on: the comments all carry text, the
   embeddings and the stance records are those the earlier steps left; the
   summary attempt, the scoring and the ranking run. *)

(* comments with text whose upvotes are missing, negative or positive *)
TailComments == { [text |-> "a", upvotes |-> NaN], [text |-> "a", upvotes |-> 0 - 1],
                  [text |-> "a", upvotes |-> 3] }

(* stance records classify_stance returns *)
TailRecords == { StanceRec("none", "support", 5, "why"), StanceRec("none", "oppose", 1, "why"),
                 StanceRec("none", "neutral", 2, "fallback") }

TailConfigs == { Config(1, 1, Weights(<<>>, TRUE)),
                 Config(2, 2, Weights(<<100, 0, 0>>, TRUE)) }

InitTail ==
    /\ InitStanceIdle
    /\ InitRankIdle
    /\ InitFnIdle
    /\ \E n \in 1..MaxComments :
          /\ comments \in [1..n -> TailComments]
          /\ emb \in [1..n -> Vecs]
          /\ stance_records \in [1..n -> TailRecords]
          /\ calls = <<Call("embed", 0)>> \o [i \in 1..n |-> Call("classify", i)]
    /\ cfg \in TailConfigs
    /\ novelty = novelty_scores(emb, Min2(cfg.topk, 10))
    /\ rep_idx = mmr(Centroid(emb), emb, Min2(cfg.max_summary_comments, Len(comments)))
    /\ pc = "summary"
    /\ tries = <<>>
    /\ result = NoResult
    /\ error = "none"

NextTail == SummaryAttempt

SpecTail == InitTail /\ [][NextTail]_vars

-----------------------------------------------------------------------------
(* Harness of controversy_scores: stances and intensities of equal length
   are drawn, controversy_scores is applied to them. *)

MaxStances == 3

(* the stances classify_stance returns and intensities in and out of 1..5 *)
StanceVals == {"support", "oppose", "neutral"}

IntensityVals == {0, 1, 3, 9}

InitControversy ==
    /\ InitPipeIdle
    /\ InitRankIdle
    /\ InitStanceIdle
    /\ \E n \in 0..MaxStances :
          args \in [stances : [1..n -> StanceVals], intensities : [1..n -> IntensityVals]]
    /\ ret = NotCalled

ControversyScores ==
    /\ ret = NotCalled
    /\ ret' = Returned(controversy_scores(args.stances, args.intensities))
    /\ UNCHANGED <<args, pipeVars, stanceVars, rankVars>>

NextControversy == ControversyScores

SpecControversy == InitControversy /\ [][NextControversy]_vars

-----------------------------------------------------------------------------
(* Harness of mmr: a query vector, a candidate matrix and a k are drawn,
   mmr is applied to them. *)

MaxCands == 3

MmrVecs == BatchVecs \cup { <<0, 12>> }

(* k = min(cfg.max_summary_comments, len(texts)), and the default 12 *)
MmrKs == {0, 1, 2, 3, 12}

InitMmr ==
    /\ InitPipeIdle
    /\ InitRankIdle
    /\ InitStanceIdle
    /\ args \in [query_vec : MmrVecs, candidate_vecs : SeqsUpTo(MmrVecs, MaxCands), k : MmrKs]
    /\ ret = NotCalled

Mmr ==
    /\ ret = NotCalled
    /\ ret' = Returned(mmr(args.query_vec, args.candidate_vecs, args.k))
    /\ UNCHANGED <<args, pipeVars, stanceVars, rankVars>>

NextMmr == Mmr

SpecMmr == InitMmr /\ [][NextMmr]_vars

-----------------------------------------------------------------------------
(* Harness of generate_summary: a chat response is drawn, generate_summary
   is applied to it. *)

MaxSummaryLen == 5

SummaryAlphabet ==
    { LB, RB, TXT, FENCE,
      Tok("executive_summary", "str", "sum"), Tok("key_points", "list", "pt"),
      Tok("next_steps", "list", "step") }

InitSummary ==
    /\ InitPipeIdle
    /\ InitRankIdle
    /\ InitStanceIdle
    /\ args \in [content : SeqsUpTo(SummaryAlphabet, MaxSummaryLen)]
    /\ ret = NotCalled

GenerateSummary ==
    /\ ret = NotCalled
    /\ ret' = Returned(generate_summary(args.content))
    /\ UNCHANGED <<args, pipeVars, stanceVars, rankVars>>

NextSummary == GenerateSummary

SpecSummary == InitSummary /\ [][NextSummary]_vars

-----------------------------------------------------------------------------
(* The /analyze handler: env_config gives the base Config, override_config
   merges the request's overrides into a new Config, analyze_comments runs
   under it. *)

ConfigFields == {"topk", "max_summary_comments", "weights"}

(* an override: a value, or None *)
Some(v) == [null |-> FALSE, v |-> v]

None(f) == [null |-> TRUE, v |-> IF f = "weights" THEN Weights(<<>>, TRUE) ELSE 0]

(* override_config: a copy of base's fields in which every override that is
   not None has replaced the value *)
override_config(base, overrides) ==
    [f \in DOMAIN base |->
        IF f \in DOMAIN overrides /\ ~overrides[f].null THEN overrides[f].v ELSE base[f]]

BaseConfigs == { Config(1, 1, Weights(<<>>, TRUE)), Config(2, 2, Weights(<<100, 0, 0>>, TRUE)) }

Overrides ==
    { [f \in ConfigFields |->
          CASE f = "topk" -> t
            [] f = "max_summary_comments" -> m
            [] f = "weights" -> w]
      : t \in {None("topk"), Some(0), Some(2)},
        m \in {None("max_summary_comments"), Some(1)},
        w \in {None("weights"), Some(Weights(<<0, 100, 0>>, TRUE))} }

(* the request's comments *)
RequestComments ==
    { <<>>, <<[text |-> "a", upvotes |-> 1]>>,
      <<[text |-> "a", upvotes |-> 1], [text |-> "", upvotes |-> 3]>> }

InitAnalyze ==
    /\ InitPipeIdle
    /\ InitRankIdle
    /\ InitStanceIdle
    /\ args \in [base : BaseConfigs, overrides : Overrides, comments : RequestComments]
    /\ ret = NotCalled

(* an override_config that writes into base's own fields instead of a copy *)
OverrideConfigInPlace ==
    /\ pc = "off"
    /\ ret = NotCalled
    /\ ret' = Returned(override_config(args.base, args.overrides))
    /\ args' = [args EXCEPT !.base = override_config(args.base, args.overrides)]
    /\ cfg' = override_config(args.base, args.overrides)
    /\ comments' = args.comments
    /\ pc' = "idle"
    /\ UNCHANGED <<tries, calls, emb, novelty, stance_records, rep_idx, result, error,
                   stanceVars, rankVars>>

(* cfg = override_config(base_cfg, ...) and the call of analyze_comments *)
OverrideConfig ==
    /\ pc = "off"
    /\ ret = NotCalled
    /\ ret' = Returned(override_config(args.base, args.overrides))
    /\ cfg' = override_config(args.base, args.overrides)
    /\ comments' = args.comments
    /\ pc' = "idle"
    /\ UNCHANGED <<args, tries, calls, emb, novelty, stance_records, rep_idx, result, error,
                   stanceVars, rankVars>>

NextAnalyze ==
    \/ OverrideConfig
    \/ Start
    \/ EmbedAttempt
    \/ ClassifyTextless
    \/ ClassifyAttempt
    \/ Select
    \/ SummaryAttempt

SpecAnalyze == InitAnalyze /\ [][NextAnalyze]_vars

(* the step of Select without the computation of mmr: rep_idx becomes some
   list of indices of emb.  Within SpecAnalyze these are the steps of
   Select, and they are enabled in the same states. *)
LoopExit ==
    /\ pc = "classify"
    /\ Len(stance_records) = Len(comments)
    /\ rep_idx' \in SeqsUpTo(DOMAIN emb, Len(emb))
    /\ pc' = "summary"
    /\ UNCHANGED <<comments, cfg, tries, calls, emb, novelty, stance_records, result,
                   error, stanceVars, rankVars, fnVars>>

ProgramStep ==
    \/ OverrideConfig
    \/ Start
    \/ EmbedAttempt
    \/ ClassifyTextless
    \/ ClassifyAttempt
    \/ LoopExit
    \/ SummaryAttempt

(* the same under the assumption that the program keeps running: every
   requests.post returns or raises within its timeout, so a step that is
   enabled is eventually taken *)
SpecAnalyzeFair == SpecAnalyze /\ WF_vars(ProgramStep)

-----------------------------------------------------------------------------
(* fetch_story_comments: the item page is requested, its comment rows are
   parsed, filtered by depth and capped by limit. *)

MaxRows == 3

(* a comment row of the page: its depth, and whether _extract_comment_fields
   parses it (it returns None when parsing raises) *)
RowVals ==
    { [depth |-> 0, parses |-> TRUE], [depth |-> 1, parses |-> TRUE],
      [depth |-> 3, parses |-> TRUE], [depth |-> 0, parses |-> FALSE] }

(* the pages: the rows in page order, each with its id *)
Pages ==
    UNION { {[i \in 1..n |-> [id |-> i, depth |-> r[i].depth, parses |-> r[i].parses]] :
                r \in [1..n -> RowVals]} : n \in 0..MaxRows }

(* the loop over comment_rows from row i on, comments being the list so far *)
RECURSIVE FetchLoop(_, _, _, _, _)
FetchLoop(comment_rows, i, comments_, max_depth, limit) ==
    IF i > Len(comment_rows) THEN comments_
    ELSE LET row == comment_rows[i]
         IN  IF ~row.parses
             THEN FetchLoop(comment_rows, i + 1, comments_, max_depth, limit)
             ELSE IF ~max_depth.null /\ row.depth > max_depth.v
             THEN FetchLoop(comment_rows, i + 1, comments_, max_depth, limit)
             ELSE LET appended == Append(comments_, [id |-> row.id, depth |-> row.depth])
                  IN  IF ~limit.null /\ Len(appended) >= limit.v
                      THEN appended
                      ELSE FetchLoop(comment_rows, i + 1, appended, max_depth, limit)

(* fetch_story_comments: [] when the request fails, else the loop's list *)
fetch_story_comments(page, fetched, max_depth, limit) ==
    IF ~fetched THEN <<>>
    ELSE FetchLoop(page, 1, <<>>, max_depth, limit)

InitComments ==
    /\ InitPipeIdle
    /\ InitRankIdle
    /\ InitStanceIdle
    /\ args \in [page : Pages, fetched : BOOLEAN,
                 max_depth : {None("max_depth"), Some(0), Some(2)},
                 limit : {None("limit"), Some(0), Some(1), Some(2)}]
    /\ ret = NotCalled

FetchStoryComments ==
    /\ ret = NotCalled
    /\ ret' = Returned(fetch_story_comments(args.page, args.fetched, args.max_depth, args.limit))
    /\ UNCHANGED <<args, pipeVars, stanceVars, rankVars>>

NextComments == FetchStoryComments

SpecComments == InitComments /\ [][NextComments]_vars

-----------------------------------------------------------------------------
(* summarize_webpage_content: the content is fetched unless it is supplied,
   checked, analysed by the LLM, and the outcome is returned as a dict. *)

(* len(content.strip()) < 100 is insufficient content *)
MinContentLen == 100

(* a content_data value: None, something that is not a dict, or a dict with
   its success flag and the length of its content; as the answer of
   fetch_webpage_content it may also be an exception *)
ContentData(null, dict, success, len, raises) ==
    [null |-> null, dict |-> dict, success |-> success, len |-> len, raises |-> raises]

NoContentData == ContentData(TRUE, FALSE, FALSE, 0, FALSE)

ContentDicts ==
    { ContentData(FALSE, TRUE, FALSE, 0, FALSE),
      ContentData(FALSE, TRUE, TRUE, 0, FALSE),
      ContentData(FALSE, TRUE, TRUE, MinContentLen - 1, FALSE),
      ContentData(FALSE, TRUE, TRUE, MinContentLen, FALSE) }

NotADict == ContentData(FALSE, FALSE, FALSE, 0, FALSE)

FetchRaises == ContentData(FALSE, FALSE, FALSE, 0, TRUE)

(* what summarize_webpage_content leaves: the exception that escaped it or
   "none", the success flag and error of the dict it returned, and whether
   it called fetch_webpage_content and analyze_webpage_content *)
Outcome(exc, success, err, fetched, analysed) ==
    [exc |-> exc, success |-> success, error |-> err, fetched |-> fetched,
     analysed |-> analysed]

(* the body of the try block *)
SummarizeBody(url_valid, content_data, config, fetch_out, analysis_out) ==
    LET need_fetch == content_data.null
        cd == IF need_fetch THEN fetch_out ELSE content_data
    IN  IF need_fetch /\ ~url_valid
        THEN Outcome("ValueError", FALSE, "", FALSE, FALSE)
        ELSE IF need_fetch /\ fetch_out.raises
        THEN Outcome("Exception", FALSE, "", TRUE, FALSE)
        ELSE IF ~cd.dict
        THEN Outcome("AttributeError", FALSE, "", need_fetch, FALSE)
        ELSE IF ~cd.success
        THEN Outcome("none", FALSE, "Failed to fetch content", need_fetch, FALSE)
        ELSE IF cd.len < MinContentLen
        THEN Outcome("none", FALSE, "Insufficient content for summarization", need_fetch, FALSE)
        ELSE IF config = "badkey"
        THEN Outcome("TypeError", FALSE, "", need_fetch, FALSE)
        ELSE IF analysis_out = "raises"
        THEN Outcome("Exception", FALSE, "", need_fetch, TRUE)
        ELSE IF analysis_out = "fail"
        THEN Outcome("none", FALSE, "LLM analysis failed", need_fetch, TRUE)
        ELSE Outcome("none", TRUE, "", need_fetch, TRUE)

(* the function without its except clause *)
SummarizeUnguarded(url_valid, content_data, config, fetch_out, analysis_out) ==
    SummarizeBody(url_valid, content_data, config, fetch_out, analysis_out)

(* summarize_webpage_content: except Exception turns whatever the body
   raises into a dict with success False, str(e) and the type's name *)
summarize_webpage_content(url_valid, content_data, config, fetch_out, analysis_out) ==
    LET body == SummarizeBody(url_valid, content_data, config, fetch_out, analysis_out)
    IN  IF body.exc # "none"
        THEN Outcome("none", FALSE, body.exc, body.fetched, body.analysed)
        ELSE body

InitSummarize ==
    /\ InitPipeIdle
    /\ InitRankIdle
    /\ InitStanceIdle
    /\ args \in [url_valid : BOOLEAN,
                 content_data : {NoContentData, NotADict} \cup ContentDicts,
                 config : {"none", "overrides", "badkey"},
                 fetch_out : {FetchRaises} \cup ContentDicts,
                 analysis_out : {"ok", "fail", "raises"}]
    /\ ret = NotCalled

SummarizeWebpageContent ==
    /\ ret = NotCalled
    /\ LET out == summarize_webpage_content(args.url_valid, args.content_data, args.config,
                                            args.fetch_out, args.analysis_out)
       IN  ret' = IF out.exc # "none" THEN Raised(out.exc) ELSE Returned(out)
    /\ UNCHANGED <<args, pipeVars, stanceVars, rankVars>>

NextSummarize == SummarizeWebpageContent

SpecSummarize == InitSummarize /\ [][NextSummarize]_vars

-----------------------------------------------------------------------------
(* The novelty step of analyze_comments on larger batches:
   novelty = novelty_scores(emb, k=min(cfg.topk, 10)). *)

MaxNeighbours == 12

(* k=min(cfg.topk, 10) without the cap *)
NoveltyKUncapped(topk) == topk

(* k=min(cfg.topk, 10) *)
NoveltyK(topk) == Min2(topk, 10)

(* -inf, which np.fill_diagonal writes on the diagonal of sim *)
NegInf == 0 - (2 * SCALE * SCALE)

(* the cnt largest values of s, largest first *)
RECURSIVE TopVals(_, _)
TopVals(s, cnt) ==
    IF cnt <= 0 \/ s = <<>> THEN <<>>
    ELSE LET i == ArgMax(s) IN <<s[i]>> \o TopVals(DropAt(s, i), cnt - 1)

(* np.sort(sim, axis=1)[:, -k_eff:] for k_eff >= 1: for each row, the k_eff
   largest entries of its row of sim, the diagonal being -inf *)
TopkSlices(m, k) ==
    LET n == Len(m)
        k_eff == Min2(k, Max2(1, n - 1))
        simRow(i) == [j \in 1..n |-> IF j = i THEN NegInf ELSE Cos(m[i], m[j])]
    IN  [i \in 1..n |-> TopVals(simRow(i), k_eff)]

(* batches of n vectors in three arrangements *)
BatchOf(n, p) ==
    [i \in 1..n |->
        CASE p = 1 -> IF i % 2 = 0 THEN <<12, 0>> ELSE <<36, 48>>
          [] p = 2 -> IF i = 1 THEN <<0, 12>> ELSE <<36, 48>>
          [] OTHER -> IF i % 3 = 0 THEN <<0, 0>> ELSE IF i % 3 = 1 THEN <<12, 0>> ELSE <<0, 12>>]

TopkVals == {1, 2, 3, 9, 10, 11, 12, 40}

InitNeighbours ==
    /\ InitPipeIdle
    /\ InitRankIdle
    /\ InitStanceIdle
    /\ args \in [emb : {BatchOf(n, p) : n \in 2..MaxNeighbours, p \in 1..3}, topk : TopkVals]
    /\ ret = NotCalled

NoveltyOfBatch ==
    /\ ret = NotCalled
    /\ ret' = Returned([novelty |-> novelty_scores(args.emb, NoveltyK(args.topk)),
                        topk |-> TopkSlices(args.emb, NoveltyK(args.topk))])
    /\ UNCHANGED <<args, pipeVars, stanceVars, rankVars>>

NextNeighbours == NoveltyOfBatch

SpecNeighbours == InitNeighbours /\ [][NextNeighbours]_vars

-----------------------------------------------------------------------------
(* fetch_comment_summary of the dump script: one GET per pass of
   `for attempt in range(MAX_RETRIES)`.  args is what the server answers to the
   successive requests; ret.v.requests is the list of answers received so far. *)

MAX_RETRIES == 3

(* what one requests.get ends in: a response with a status and a body that is
   JSON or not, a timeout, or another failure of the connection *)
Response(status, json, payload) ==
    [kind |-> "response", status |-> status, json |-> json, payload |-> payload]
TimeoutResp == [kind |-> "timeout", status |-> 0, json |-> FALSE, payload |-> "none"]
ConnectionResp == [kind |-> "connection", status |-> 0, json |-> FALSE, payload |-> "none"]

ResponseVals ==
    { Response(200, TRUE, "p1"), Response(200, TRUE, "p2"), Response(200, FALSE, "none"),
      Response(404, TRUE, "none"), Response(429, FALSE, "none"),
      Response(500, FALSE, "none"), Response(503, TRUE, "none"),
      TimeoutResp, ConnectionResp }

(* resp.raise_for_status() raises HTTPError for the statuses 400..599 *)
RaisesForStatus(status) == status >= 400 /\ status < 600

(* the last pass is treated like the others: nothing is raised after it *)
FetchPassNoLastRaise(attempt, r) ==
    IF r.kind = "timeout" THEN "retry"
    ELSE IF r.kind = "connection" THEN "ConnectionError"
    ELSE IF RaisesForStatus(r.status)
         THEN IF r.status >= 500 THEN "retry" ELSE "HTTPError"
    ELSE IF r.json THEN "return" ELSE "JSONDecodeError"

(* one pass of the loop body on the answer r: "return", "retry", or the
   exception that leaves the function *)
FetchPass(attempt, r) ==
    IF r.kind = "timeout"
    THEN IF attempt = MAX_RETRIES - 1 THEN "Timeout" ELSE "retry"
    ELSE IF r.kind = "connection" THEN "ConnectionError"
    ELSE IF RaisesForStatus(r.status)
         THEN IF r.status >= 500
              THEN IF attempt = MAX_RETRIES - 1 THEN "HTTPError" ELSE "retry"
              ELSE "HTTPError"
    ELSE IF r.json THEN "return" ELSE "JSONDecodeError"

FetchState(done, exc, requests, payload) ==
    [done |-> done, exc |-> exc, v |-> [requests |-> requests, payload |-> payload]]

InitFetchSummary ==
    /\ InitPipeIdle
    /\ InitRankIdle
    /\ InitStanceIdle
    /\ args \in [1..MAX_RETRIES -> ResponseVals]
    /\ ret = FetchState(FALSE, "none", <<>>, "none")

(* a pass of the loop; when range(MAX_RETRIES) is used up the function ends
   by falling off its end, which returns None *)
FetchCommentSummary ==
    /\ ~ret.done
    /\ LET attempt == Len(ret.v.requests)
           r == args[attempt + 1]
           requests == Append(ret.v.requests, r)
           out == FetchPass(attempt, r)
       IN  ret' = IF out = "return" THEN FetchState(TRUE, "none", requests, r.payload)
                  ELSE IF out = "retry"
                       THEN FetchState(attempt + 1 >= MAX_RETRIES, "none", requests, "None")
                  ELSE FetchState(TRUE, out, requests, "none")
    /\ UNCHANGED <<args, pipeVars, stanceVars, rankVars>>

NextFetchSummary == FetchCommentSummary

SpecFetchSummary == InitFetchSummary /\ [][NextFetchSummary]_vars

-----------------------------------------------------------------------------
(* fetch_webpage_content of content_fetcher: one GET per pass of
   `for attempt in range(MAX_RETRIES)`, MAX_RETRIES being the fetcher's own
   constant.  args.responses is what the successive requests end in;
   ret.v.requests is the list of those received so far. *)

FETCHER_MAX_RETRIES == 3

(* a response with its status, whether its content type holds text/html and
   whether extract_readable_content handles its text *)
PageResponse(status, html, extracts) ==
    [kind |-> "response", status |-> status, html |-> html, extracts |-> extracts]
PageTimeout == [kind |-> "timeout", status |-> 0, html |-> FALSE, extracts |-> FALSE]
PageConnectionError == [kind |-> "connection", status |-> 0, html |-> FALSE, extracts |-> FALSE]

PageResponseVals ==
    { PageResponse(200, TRUE, TRUE), PageResponse(200, FALSE, TRUE),
      PageResponse(200, TRUE, FALSE), PageResponse(404, TRUE, TRUE),
      PageResponse(403, FALSE, TRUE), PageResponse(500, TRUE, TRUE),
      PageTimeout, PageConnectionError }

(* bool(response) of requests: Response.__bool__ returns response.ok, which is
   False exactly when raise_for_status() raises *)
ResponseTruth(status) == ~RaisesForStatus(status)

(* hasattr(e, 'response') and e.response and 400 <= e.response.status_code < 500:
   a ConnectionError carries response None *)
ClientErrorBreak(r) ==
    /\ r.kind = "response"
    /\ ResponseTruth(r.status)
    /\ 400 <= r.status /\ r.status < 500

(* one pass of the loop body: what ends it, and the exception it handled *)
PagePass(attempt, r) ==
    LET again == IF attempt < FETCHER_MAX_RETRIES - 1 THEN "continue" ELSE "end"
    IN  IF r.kind = "timeout" THEN [ends |-> again, exc |-> "Timeout"]
        ELSE IF r.kind = "connection" THEN [ends |-> again, exc |-> "ConnectionError"]
        ELSE IF RaisesForStatus(r.status)
             THEN [ends |-> IF ClientErrorBreak(r) THEN "break" ELSE again, exc |-> "HTTPError"]
        ELSE IF ~r.html THEN [ends |-> "break", exc |-> "ValueError"]
        ELSE IF ~r.extracts THEN [ends |-> "break", exc |-> "Exception"]
        ELSE [ends |-> "return", exc |-> "none"]

PageState(done, exc, requests, success, error_type) ==
    [done |-> done, exc |-> exc,
     v |-> [requests |-> requests, success |-> success, error_type |-> error_type]]

InitFetchPage ==
    /\ InitPipeIdle
    /\ InitRankIdle
    /\ InitStanceIdle
    /\ args \in [url_valid : BOOLEAN, responses : [1..FETCHER_MAX_RETRIES -> PageResponseVals]]
    /\ ret = PageState(FALSE, "none", <<>>, FALSE, "none")

(* the check of the URL on entry, which raises ValueError *)
RejectUrl ==
    /\ ~ret.done
    /\ ~args.url_valid
    /\ ret' = PageState(TRUE, "ValueError", <<>>, FALSE, "none")
    /\ UNCHANGED <<args, pipeVars, stanceVars, rankVars>>

(* a pass of the loop; after a break or the last pass the error dict is
   returned with the type of last_exception *)
FetchWebpageContent ==
    /\ ~ret.done
    /\ args.url_valid
    /\ LET attempt == Len(ret.v.requests)
           r == args.responses[attempt + 1]
           requests == Append(ret.v.requests, r)
           out == PagePass(attempt, r)
       IN  ret' = IF out.ends = "return" THEN PageState(TRUE, "none", requests, TRUE, "none")
                  ELSE IF out.ends = "continue" /\ attempt + 1 < FETCHER_MAX_RETRIES
                       THEN PageState(FALSE, "none", requests, FALSE, out.exc)
                  ELSE PageState(TRUE, "none", requests, FALSE, out.exc)
    /\ UNCHANGED <<args, pipeVars, stanceVars, rankVars>>

NextFetchPage == RejectUrl \/ FetchWebpageContent

SpecFetchPage == InitFetchPage /\ [][NextFetchPage]_vars

-----------------------------------------------------------------------------
(* The cleanup script: main obtains the current story ids, and
   cleanup_old_stories removes the story directories outside them, one
   shutil.rmtree per pass of its loop.  args is the world the script meets;
   ret.v is the script's state, with the entries of stories_dir in ret.v.fs. *)

MaxStoryName == 3

(* an entry of stories_dir: its name as a number, whether the name is all
   digits (name.isdigit()), and whether it is a directory *)
Entry(name, digits, is_dir) == [name |-> name, digits |-> digits, is_dir |-> is_dir]

(* story directories 1..MaxStoryName, a directory whose name is not a number,
   and a regular file whose name is one *)
EntryVals ==
    {Entry(n, TRUE, TRUE) : n \in 1..MaxStoryName}
        \cup {Entry(MaxStoryName + 1, FALSE, TRUE), Entry(MaxStoryName + 2, TRUE, FALSE)}

(* the ids the API or the file can hold: some with a directory, one without *)
IdSets == SUBSET {1, 2, MaxStoryName + 3}

(* a source of story ids: the request to the API or the file top-stories.json;
   ok is whether it can be read at all *)
IdSource(ok, ids) == [ok |-> ok, ids |-> ids]
IdSources == {IdSource(FALSE, {})} \cup {IdSource(TRUE, s) : s \in IdSets}

(* fetch_current_story_ids: the API first, the file when the request fails,
   an exception (null) when neither is there *)
fetch_current_story_ids(api, file) ==
    IF api.ok THEN Some(api.ids)
    ELSE IF file.ok THEN Some(file.ids)
    ELSE [null |-> TRUE, v |-> {}]

find_existing_story_dirs(fs) == {e.name : e \in {x \in fs : x.is_dir /\ x.digits}}

(* every story directory is taken for an old one *)
OldDirsAll(existing_dirs, current_ids) == existing_dirs

OldDirs(existing_dirs, current_ids) == existing_dirs \ current_ids

SetMin(S) == CHOOSE x \in S : \A y \in S : x <= y

CleanupState(done, exc, phase, current_ids, fs, todo, removed) ==
    [done |-> done, exc |-> exc,
     v |-> [phase |-> phase, current_ids |-> current_ids, fs |-> fs,
            todo |-> todo, removed |-> removed]]

InitCleanup ==
    /\ InitPipeIdle
    /\ InitRankIdle
    /\ InitStanceIdle
    /\ args \in [fs : SUBSET EntryVals, api : IdSources,
                 file : {IdSource(FALSE, {}), IdSource(TRUE, {}), IdSource(TRUE, {1})},
                 dry_run : BOOLEAN, locked : SUBSET {2}]
    /\ ret = CleanupState(FALSE, "none", "main", {}, args.fs, {}, <<>>)

(* main up to the call of cleanup_old_stories, and the start of that call:
   the exception of fetch_current_story_ids and an empty set of ids both end
   the script with sys.exit(1) *)
ObtainIds ==
    /\ ~ret.done /\ ret.v.phase = "main"
    /\ LET current_ids == fetch_current_story_ids(args.api, args.file)
           old_dirs == OldDirs(find_existing_story_dirs(ret.v.fs), current_ids.v)
       IN  ret' = IF current_ids.null \/ current_ids.v = {}
                  THEN CleanupState(TRUE, "SystemExit", "main", {}, ret.v.fs, {}, <<>>)
                  ELSE IF old_dirs = {}
                       THEN CleanupState(TRUE, "none", "cleanup", current_ids.v, ret.v.fs, {}, <<>>)
                  ELSE CleanupState(FALSE, "none", "cleanup", current_ids.v, ret.v.fs, old_dirs, <<>>)
    /\ UNCHANGED <<args, pipeVars, stanceVars, rankVars>>

(* a pass of `for story_id in sorted(old_dirs)`: shutil.rmtree fails on the
   directories of args.locked *)
RemoveNext ==
    /\ ~ret.done /\ ret.v.phase = "cleanup"
    /\ LET story_id == SetMin(ret.v.todo)
           todo == ret.v.todo \ {story_id}
           removes == ~args.dry_run /\ story_id \notin args.locked
           fs == IF removes THEN {e \in ret.v.fs : e.name # story_id} ELSE ret.v.fs
           removed == IF removes THEN Append(ret.v.removed, story_id) ELSE ret.v.removed
       IN  ret' = CleanupState(todo = {}, "none", "cleanup", ret.v.current_ids, fs, todo, removed)
    /\ UNCHANGED <<args, pipeVars, stanceVars, rankVars>>

NextCleanup == ObtainIds \/ RemoveNext

SpecCleanup == InitCleanup /\ [][NextCleanup]_vars

-----------------------------------------------------------------------------
(* atomic_write_json (fetch_top_stories, dump_comment_summaries, and the same
   lines inside cleanup's update_top_stories_file) run by concurrent writer
   processes on one target path, and a reader of that path (the UI server).
   Every writer uses the same temporary path, target + ".tmp".
   ret.v holds the file system and the position of every process:
   inodes[i] is the content of file i, dir maps the two names to a file
   (0: no such name), and an open file is held by its number, as a file
   descriptor holds it whatever happens to the name. *)

NumWriters == 2

(* the number of write() calls in which a file's text reaches the file: the
   buffered file flushes whenever its buffer fills and when it is closed *)
NumChunks == 2

Chunk(w, i) == [w |-> w, i |-> i]

(* the bytes of a hole left by writing beyond the end of a file *)
Hole == Chunk(0 - 1, 0)

(* the complete text written by writer w; writer 0 wrote the previous content *)
Complete(w) == [i \in 1..NumChunks |-> Chunk(w, i)]

(* write(chunk) at offset off of a file with this content *)
WriteAt(content, off, chunk) ==
    IF off < Len(content) THEN [content EXCEPT ![off + 1] = chunk]
    ELSE content \o [i \in 1..(off - Len(content)) |-> Hole] \o <<chunk>>

FsState(inodes, dir, wr, rd) ==
    [done |-> FALSE, exc |-> "none",
     v |-> [inodes |-> inodes, dir |-> dir, wr |-> wr, rd |-> rd]]

WriterAt(pc_, fd, off) == [pc |-> pc_, fd |-> fd, off |-> off]
ReaderAt(pc_, fd, seen) == [pc |-> pc_, fd |-> fd, seen |-> seen]

(* args: the processes that write, and whether the target exists beforehand *)
InitFs ==
    /\ InitPipeIdle
    /\ InitRankIdle
    /\ InitStanceIdle
    /\ args \in [writers : (SUBSET (1..NumWriters)) \ {{}}, existed : BOOLEAN]
    /\ ret = FsState(IF args.existed THEN <<Complete(0)>> ELSE <<>>,
                     [target |-> IF args.existed THEN 1 ELSE 0, tmp |-> 0],
                     [w \in args.writers |-> WriterAt("open", 0, 0)],
                     ReaderAt("open", 0, <<>>))

(* tmp_path.open("w"): creates the file, or truncates the one of that name *)
WriterOpen ==
  \E w \in args.writers :
    /\ ret.v.wr[w].pc = "open"
    /\ LET s == ret.v
           fresh == s.dir.tmp = 0
           fd == IF fresh THEN Len(s.inodes) + 1 ELSE s.dir.tmp
           inodes == IF fresh THEN Append(s.inodes, <<>>)
                     ELSE [s.inodes EXCEPT ![fd] = <<>>]
       IN  ret' = FsState(inodes, [s.dir EXCEPT !.tmp = fd],
                          [s.wr EXCEPT ![w] = WriterAt("write", fd, 0)], s.rd)
    /\ UNCHANGED <<args, pipeVars, stanceVars, rankVars>>

(* json.dump(data, f); f.write("\n"); close: one write() call per step, at the
   writer's own offset of its open file *)
WriterWrite ==
  \E w \in args.writers :
    /\ ret.v.wr[w].pc = "write"
    /\ LET s == ret.v
           me == s.wr[w]
           inodes == [s.inodes EXCEPT ![me.fd] = WriteAt(@, me.off, Chunk(w, me.off + 1))]
           pc_ == IF me.off + 1 = NumChunks THEN "replace" ELSE "write"
       IN  ret' = FsState(inodes, s.dir,
                          [s.wr EXCEPT ![w] = WriterAt(pc_, me.fd, me.off + 1)], s.rd)
    /\ UNCHANGED <<args, pipeVars, stanceVars, rankVars>>

(* tmp_path.replace(path): rename(2), FileNotFoundError when the temporary
   name is gone *)
WriterReplace ==
  \E w \in args.writers :
    /\ ret.v.wr[w].pc = "replace"
    /\ LET s == ret.v
           me == s.wr[w]
       IN  ret' = IF s.dir.tmp = 0
                  THEN FsState(s.inodes, s.dir,
                               [s.wr EXCEPT ![w] = WriterAt("failed", me.fd, me.off)], s.rd)
                  ELSE FsState(s.inodes, [target |-> s.dir.tmp, tmp |-> 0],
                               [s.wr EXCEPT ![w] = WriterAt("done", me.fd, me.off)], s.rd)
    /\ UNCHANGED <<args, pipeVars, stanceVars, rankVars>>

(* api_top_stories: abort(404) when the file is not there, else open it *)
ReaderOpen ==
    /\ ret.v.rd.pc = "open"
    /\ LET s == ret.v
       IN  ret' = FsState(s.inodes, s.dir, s.wr,
                          IF s.dir.target = 0 THEN ReaderAt("absent", 0, <<>>)
                          ELSE ReaderAt("read", s.dir.target, <<>>))
    /\ UNCHANGED <<args, pipeVars, stanceVars, rankVars>>

(* json.load(f): the content of the open file at that moment *)
ReaderRead ==
    /\ ret.v.rd.pc = "read"
    /\ LET s == ret.v
       IN  ret' = FsState(s.inodes, s.dir, s.wr,
                          ReaderAt("done", s.rd.fd, s.inodes[s.rd.fd]))
    /\ UNCHANGED <<args, pipeVars, stanceVars, rankVars>>

NextFs ==
    \/ WriterOpen
    \/ WriterWrite
    \/ WriterReplace
    \/ ReaderOpen
    \/ ReaderRead

SpecFs == InitFs /\ [][NextFs]_vars

-----------------------------------------------------------------------------
(* Properties *)

(* the comment has no text: the key is missing, or its value is null or "" *)
Textless(c) == c.text \in {"", "NULL", "ABSENT"}

TextlessIdx == {i \in DOMAIN comments : Textless(comments[i])}

Ended == pc \in {"done", "failed"}

CallsOf(op) == {i \in DOMAIN calls : calls[i].op = op}

(* C5 names a Config malformed when its weight vector is given and is not
   exactly three numbers. *)
MalformedWeights ==
    cfg.weights.w # <<>> /\ (Len(cfg.weights.w) # 3 \/ ~cfg.weights.numeric)

(* C1: on the full path (some comment has text, the Config is well formed,
   every service call returned and every classification produced a record),
   analyze_comments returns a result whose all_comments holds every input
   comment exactly once, textless comments included. *)
C1_EveryCommentRanked ==
    (/\ Ended
     /\ TextlessIdx # DOMAIN comments
     /\ cfg.topk > 0
     /\ ~MalformedWeights
     /\ error # "RuntimeError"
     /\ Len(stance_records) = Len(comments))
    => /\ result.kind = "result"
       /\ Len(result.all_comments) = Len(comments)
       /\ \A i \in DOMAIN comments :
            Cardinality({j \in DOMAIN result.all_comments :
                            result.all_comments[j].c.id = i}) = 1

(* C2: in every result with a positive topK, top_comments is the first
   min(topK, len(all_comments)) entries of all_comments, in order. *)
C2_TopIsPrefix ==
    (pc = "done" /\ cfg.topk > 0)
    => /\ Len(result.top_comments) = Min2(cfg.topk, Len(result.all_comments))
       /\ \A i \in DOMAIN result.top_comments :
            result.top_comments[i] = result.all_comments[i]

C2_Witness ==
    /\ pc = "done"
    /\ cfg.topk = 1
    /\ Len(result.all_comments) = 2
    /\ Len(result.top_comments) = 1

(* C3: score_and_rank returns the comments in non-increasing order of
   must_read_score, and comments of equal score keep their input order. *)
C3_SortedAndStable ==
    rankOut.exc = "none"
    => \A i, j \in DOMAIN rankOut.all : i < j =>
          /\ rankOut.all[i].must_read_score >= rankOut.all[j].must_read_score
          /\ (rankOut.all[i].must_read_score = rankOut.all[j].must_read_score
                => rankOut.all[i].c.id < rankOut.all[j].c.id)

(* C4: when no input comment has non-empty text, analyze_comments issues no
   embed and no chat call and returns the empty result. *)
C4_ShortcutNoCalls ==
    (pc # "idle" /\ TextlessIdx = DOMAIN comments)
    => /\ pc = "done"
       /\ calls = <<>>
       /\ tries = <<>>
       /\ result = Result(EmptySummary, <<>>, <<>>)

C4_Witness ==
    /\ pc = "done"
    /\ Len(comments) = 2
    /\ TextlessIdx = DOMAIN comments
    /\ result.all_comments = <<>>

(* C5: under a Config with a non-positive topK or a weight vector that is
   not exactly three numbers, no embed or chat call is ever issued. *)
C5_BadConfigNoCalls ==
    (cfg.topk <= 0 \/ MalformedWeights) => calls = <<>>

(* C6: classify_stance returns a value, without raising, for every response
   the service can return. *)
C6_MalformedNeverRaises ==
    stanceOut.exc \in {"notrun", "none"}

(* C7: a request the service rejects (HTTP 4xx) is not retried: it is the
   last request of its call. *)
C7_RejectedNotRetried ==
    \A i \in DOMAIN tries : tries[i] = "rejected" => i = Len(tries)

(* C8: when a call has used up its retries + 1 attempts, analyze_comments
   has failed with the RuntimeError and there is no result, partial or not. *)
C8_ExhaustionFailsWhole ==
    (Len(tries) >= Retries + 1)
    => (pc = "failed" /\ error = "RuntimeError" /\ result = NoResult)

C8_Witness ==
    /\ pc = "failed"
    /\ error = "RuntimeError"
    /\ Len(tries) = Retries + 1
    /\ calls # <<>>
    /\ calls[Len(calls)].op = "summary"
    /\ Len(stance_records) = 2

(* C9: a completed full-path invocation has issued exactly one embed call,
   exactly one classification call per comment with text and exactly one
   summary call; a comment without text is never sent to the adapter and its
   stance record is neutral with intensity 2. *)
C9_CallsPerInvocation ==
    /\ (pc = "done" /\ TextlessIdx # DOMAIN comments)
       => /\ Cardinality(CallsOf("embed")) = 1
          /\ Cardinality(CallsOf("summary")) = 1
          /\ \A i \in DOMAIN comments \ TextlessIdx :
                Cardinality({j \in CallsOf("classify") : calls[j].idx = i}) = 1
          /\ Len(calls) = 2 + Cardinality(DOMAIN comments \ TextlessIdx)
    /\ \A i \in TextlessIdx :
          /\ \A j \in CallsOf("classify") : calls[j].idx # i
          /\ i \in DOMAIN stance_records
                => (stance_records[i].stance = "neutral" /\ stance_records[i].intensity = 2)

C9_Witness ==
    /\ pc = "done"
    /\ Len(comments) = 2
    /\ TextlessIdx = {}
    /\ Len(calls) = 4

(* C10: classify_stance on a response with no parsable JSON object (no
   braces, or no valid JSON between the first "{" and the last "}") returns
   stance neutral and intensity 2. *)
NoJsonObject(text) ==
    LET lbs == {i \in DOMAIN text : text[i] = LB}
        rbs == {i \in DOMAIN text : text[i] = RB}
    IN  \/ lbs = {}
        \/ rbs = {}
        \/ \E i \in lbs, j \in rbs :
              /\ \A l \in lbs : i <= l
              /\ \A r \in rbs : r <= j
              /\ (j <= i \/ \E m \in (i + 1)..(j - 1) : ~IsMember(text[m]))

C10_NonJsonFallsBack ==
    (stanceOut # NotRun /\ NoJsonObject(raw))
    => /\ stanceOut.exc = "none"
       /\ stanceOut.stance = "neutral"
       /\ stanceOut.intensity = 2

C10_Witness ==
    /\ stanceOut # NotRun
    /\ raw = <<TXT, LB, TXT, RB>>
    /\ stanceOut.stance = "neutral"

(* the keys of the object between the first "{" and the last "}" of a
   response that holds a parsable object *)
ObjectKeys(text) ==
    LET lbs == {i \in DOMAIN text : text[i] = LB}
        rbs == {i \in DOMAIN text : text[i] = RB}
        first == CHOOSE i \in lbs : \A l \in lbs : i <= l
        last == CHOOSE j \in rbs : \A r \in rbs : r <= j
    IN  {text[m].k : m \in (first + 1)..(last - 1)}

(* C11: when the response parses as a JSON object that lacks one of stance,
   intensity, reasons, classify_stance returns the complete fallback record
   neutral / 2 / "fallback", whatever the fields present hold. *)
C11_MissingFieldFullFallback ==
    (/\ stanceOut.exc = "none"
     /\ ~NoJsonObject(raw)
     /\ {"stance", "intensity", "reasons"} \ ObjectKeys(raw) # {})
    => stanceOut = StanceRec("none", "neutral", 2, "fallback")

(* the value token a response's object holds for a key (the last member of
   that key), or the token given when the key is absent *)
MemberOf(text, key, absent) ==
    LET idx == {i \in DOMAIN text : IsMember(text[i]) /\ text[i].k = key}
    IN  IF idx = {} THEN absent
        ELSE text[CHOOSE i \in idx : \A j \in idx : j <= i]

(* C12: every stance record produced, by classify_stance for a response or
   by the textless branch of the loop, has a stance among support, oppose,
   neutral and an integer intensity in 1..5; for an object response a stance
   outside the set has become neutral and an intensity outside the range is
   the nearest bound. *)
C12_RecordWellFormed ==
    (ret.done /\ ret.exc = "none" /\ "c" \in DOMAIN args /\ "raw" \in DOMAIN args)
    => /\ ret.v.stance \in {"support", "oppose", "neutral"}
       /\ ret.v.intensity \in 1..5
       /\ (HasText(args.c) /\ ~NoJsonObject(args.raw))
          => LET st == MemberOf(args.raw, "stance", Tok("stance", "str", "neutral"))
                 it == MemberOf(args.raw, "intensity", Tok("intensity", "num", "2"))
                 n == NumVal(it.v)
             IN  /\ st.v \notin {"support", "oppose", "neutral"} => ret.v.stance = "neutral"
                 /\ st.v \in {"support", "oppose", "neutral"} => ret.v.stance = st.v
                 /\ n > 5 => ret.v.intensity = 5
                 /\ n < 1 => ret.v.intensity = 1
                 /\ n \in 1..5 => ret.v.intensity = n

C12_Witness ==
    /\ ret.done /\ ret.exc = "none"
    /\ "c" \in DOMAIN args /\ "raw" \in DOMAIN args
    /\ HasText(args.c)
    /\ args.raw = <<LB, Tok("stance", "str", "maybe"), Tok("intensity", "num", "9"), RB>>
    /\ ret.v = StanceRec("none", "neutral", 5, "fallback")

(* C13: novelty_scores returns [] for no vectors, [0.0] for one, and N zeros
   for N >= 2 identical vectors, whatever the k asked for. *)
C13_IdenticalBatchZero ==
    (ret.done /\ "emb" \in DOMAIN args /\ "k" \in DOMAIN args)
    => LET n == Len(args.emb)
       IN  /\ n = 0 => ret.v = <<>>
           /\ n = 1 => ret.v = <<0>>
           /\ (n >= 2 /\ \A i \in 1..n : args.emb[i] = args.emb[1])
              => ret.v = [i \in 1..n |-> 0]

(* C14: in every result of analyze_comments under a positive topK, each
   novelty, controversy and popularity value lies in [0, 1], whatever the
   stances and whatever the upvotes (missing and negative ones included),
   and novelty and controversy have one entry per ranked comment. *)
C14_ScoresInUnitRange ==
    (pc = "done" /\ result.kind = "result" /\ cfg.topk > 0)
    => /\ \A i \in DOMAIN result.all_comments :
            /\ result.all_comments[i].novelty \in 0..SCALE
            /\ result.all_comments[i].controversy \in 0..SCALE
            /\ result.all_comments[i].popularity \in 0..SCALE
       /\ \A i \in DOMAIN result.top_comments :
            /\ result.top_comments[i].novelty \in 0..SCALE
            /\ result.top_comments[i].controversy \in 0..SCALE
            /\ result.top_comments[i].popularity \in 0..SCALE
       /\ Len(novelty) = Len(result.all_comments)
       /\ Len(stance_records) = Len(result.all_comments)

C14_Witness ==
    /\ pc = "done" /\ result.kind = "result" /\ cfg.topk > 0
    /\ Len(result.all_comments) = 2
    /\ \E i, j \in DOMAIN result.all_comments :
          /\ result.all_comments[i].c.upvotes = NaN
          /\ result.all_comments[i].popularity = SCALE
          /\ result.all_comments[j].c.upvotes = 0 - 1
          /\ result.all_comments[j].popularity = 0
          /\ result.all_comments[i].c.stance = "support"
          /\ result.all_comments[j].c.stance = "oppose"
          /\ result.all_comments[i].controversy # result.all_comments[j].controversy

(* C15: on a unanimous input (one stance, one intensity) controversy_scores
   uses entropy term 0 and returns all zeros; the entropy term is 0 as well
   whenever no comment is support or oppose. *)
C15_UnanimousZero ==
    (ret.done /\ "stances" \in DOMAIN args /\ "intensities" \in DOMAIN args)
    => LET n == Len(args.stances)
           unanimous == \A i \in 1..n : /\ args.stances[i] = args.stances[1]
                                        /\ args.intensities[i] = args.intensities[1]
       IN  /\ unanimous => /\ entropy_term(args.stances) = 0
                           /\ ret.v = [i \in 1..n |-> 0]
           /\ (\A i \in 1..n : args.stances[i] \notin {"support", "oppose"})
              => entropy_term(args.stances) = 0

C15_Witness ==
    /\ ret.done /\ "stances" \in DOMAIN args /\ "intensities" \in DOMAIN args
    /\ args.stances = <<"support", "support", "support">>
    /\ args.intensities = <<9, 9, 9>>
    /\ ret.v = <<0, 0, 0>>

(* C16: mmr returns a list without duplicate indices, of length at most k,
   each index within the candidate range; when the list is not empty its
   first element has maximal cosine similarity to the query among all
   candidates; with no candidates the list is empty. *)
C16_MmrSelection ==
    (ret.done /\ "candidate_vecs" \in DOMAIN args)
    => LET sel == ret.v
           cands == args.candidate_vecs
           n == Len(cands)
       IN  /\ \A i, j \in DOMAIN sel : sel[i] = sel[j] => i = j
           /\ Len(sel) <= args.k
           /\ \A i \in DOMAIN sel : sel[i] \in 1..n
           /\ sel # <<>> =>
                \A j \in 1..n : Cos(cands[j], args.query_vec) <= Cos(cands[sel[1]], args.query_vec)
           /\ n = 0 => sel = <<>>

C16_Witness ==
    /\ ret.done /\ "candidate_vecs" \in DOMAIN args
    /\ args.k = 12
    /\ args.query_vec = <<36, 48>>
    /\ args.candidate_vecs = <<<<12, 0>>, <<36, 48>>, <<36, 48>>>>
    /\ ret.v = <<2, 3, 1>>

(* C17: when no JSON object can be decoded from the summary response,
   generate_summary returns the raw response text as executive_summary,
   with key_points and next_steps empty. *)
C17_UnparsableKeepsRawText ==
    (/\ ret.done /\ "content" \in DOMAIN args
     /\ \A i \in DOMAIN args.content : args.content[i] # FENCE
     /\ NoJsonObject(args.content))
    => ret.v = [executive_summary |-> ContentText(args.content),
                key_points |-> <<>>, next_steps |-> <<>>]

(* C18: a summary response whose JSON object is wrapped in a fenced code
   block yields the executive_summary, key_points and next_steps of the
   same object sent without the fence. *)
C18_FenceKeepsContent ==
    (/\ ret.done /\ "content" \in DOMAIN args
     /\ Len(args.content) >= 4
     /\ Head(args.content) = FENCE
     /\ args.content[Len(args.content)] = FENCE
     /\ JsonValid(SubSeq(args.content, 2, Len(args.content) - 1)))
    => ret.v = generate_summary(SubSeq(args.content, 2, Len(args.content) - 1))

(* C19: with the weight vector (1, 0, 0) the order of all_comments is that
   of sorting the comments by novelty, descending, whatever the controversy
   and popularity values are: novelty never increases down the list, the
   score is the novelty alone, and the order is one that sort_values gives
   on the novelty column. *)
C19_NoveltyOnlyOrder ==
    (rankOut.exc = "none" /\ rankIn # <<>> /\ rankIn.weights = Weights(<<100, 0, 0>>, TRUE))
    => LET all == rankOut.all
           rows == [i \in DOMAIN rankIn.comments |->
                       [c |-> rankIn.comments[i], must_read_score |-> rankIn.novelty[i]]]
       IN  /\ \A i, j \in DOMAIN all : i < j => all[i].novelty >= all[j].novelty
           /\ \A i \in DOMAIN all : all[i].must_read_score = 100 * all[i].novelty
           /\ \E p \in SortOrders(rows) :
                 /\ Len(all) = Len(rows)
                 /\ \A i \in DOMAIN all : all[i].c = rows[p[i]].c

C19_Witness ==
    /\ rankOut.exc = "none" /\ rankIn # <<>>
    /\ rankIn.weights = Weights(<<100, 0, 0>>, TRUE)
    /\ Len(rankOut.all) = 2
    /\ rankOut.all[1].c.id = 2
    /\ rankOut.all[1].novelty = SCALE
    /\ rankOut.all[1].controversy = 0 /\ rankOut.all[1].popularity = 0
    /\ rankOut.all[2].novelty = 0
    /\ rankOut.all[2].controversy = SCALE /\ rankOut.all[2].popularity = SCALE

(* C20: override_config returns a new Config in which every field with an
   override that is not None holds the override and every other field
   holds base's value; base is left as it was, and analyze_comments never
   changes the Config it was given. *)
C20_OverrideFrame ==
    [][/\ (~ret.done /\ ret'.done /\ "overrides" \in DOMAIN args)
          => /\ DOMAIN ret'.v = ConfigFields
             /\ \A f \in ConfigFields :
                   ret'.v[f] = IF args.overrides[f].null THEN args.base[f]
                               ELSE args.overrides[f].v
             /\ cfg' = ret'.v
       /\ args' = args
       /\ pc # "off" => cfg' = cfg]_vars

C20_Witness ==
    /\ pc = "done"
    /\ calls # <<>>
    /\ ret.done
    /\ "overrides" \in DOMAIN args
    /\ args.base = Config(2, 2, Weights(<<100, 0, 0>>, TRUE))
    /\ ~args.overrides["topk"].null /\ args.overrides["topk"].v = 0
    /\ args.overrides["weights"].null
    /\ cfg = Config(0, 1, Weights(<<100, 0, 0>>, TRUE))
    /\ cfg = ret.v

(* C21: fetch_story_comments returns, in page order, only comments of depth
   at most max_depth (when given) and at most limit comments (when given,
   limit = 0 included); a failed page request returns []. *)
C21_DepthAndLimit ==
    (ret.done /\ "page" \in DOMAIN args)
    => LET out == ret.v
       IN  /\ ~args.fetched => out = <<>>
           /\ \A i \in DOMAIN out :
                 /\ out[i].id \in DOMAIN args.page
                 /\ args.page[out[i].id].depth = out[i].depth
                 /\ ~args.max_depth.null => out[i].depth <= args.max_depth.v
           /\ \A i, j \in DOMAIN out : i < j => out[i].id < out[j].id
           /\ ~args.limit.null => Len(out) <= args.limit.v

(* C22: summarize_webpage_content never raises; it returns success True
   only when the fetch (or the supplied content) and the analysis both
   succeeded, every other return carries success False with an error
   message, and with content_data supplied no fetch is made. *)
C22_SummarizeNeverRaises ==
    (ret.done /\ "content_data" \in DOMAIN args)
    => LET supplied == ~args.content_data.null
           cd == IF supplied THEN args.content_data ELSE args.fetch_out
       IN  /\ ret.exc = "none"
           /\ ret.v.success
              => /\ supplied \/ args.url_valid
                 /\ cd.dict /\ cd.success /\ ~cd.raises
                 /\ cd.len >= MinContentLen
                 /\ args.analysis_out = "ok"
           /\ ~ret.v.success => ret.v.error # ""
           /\ supplied => ~ret.v.fetched

C22_Witness ==
    /\ ret.done /\ "content_data" \in DOMAIN args
    /\ args.content_data.null /\ args.url_valid
    /\ args.fetch_out.raises
    /\ ret = Returned(Outcome("none", FALSE, "Exception", TRUE, FALSE))

(* the stages of analyze_comments in their order *)
StageRank(p) ==
    CASE p = "off" -> 0 [] p = "idle" -> 1 [] p = "embed" -> 2 [] p = "classify" -> 3
      [] p = "summary" -> 4 [] OTHER -> 5

(* the call log is the embed call, then classification calls for the
   comments with text in input order, each issued after the one before it
   has returned, then the summary call after every record exists *)
CallsInOrder ==
    LET textIdx == TextIdx(comments, 1)
    IN  \A j \in DOMAIN calls :
           /\ j = 1 => calls[j] = Call("embed", 0)
           /\ j > 1 => Len(emb) = Len(textIdx)
           /\ (j > 1 /\ j <= Len(textIdx) + 1)
              => /\ calls[j] = Call("classify", textIdx[j - 1])
                 /\ Len(stance_records) >= textIdx[j - 1] - 1
                 /\ j < Len(calls) => Len(stance_records) >= textIdx[j - 1]
           /\ j > Len(textIdx) + 1
              => /\ j = Len(textIdx) + 2
                 /\ calls[j] = Call("summary", 0)
                 /\ Len(stance_records) = Len(comments)

(* C23: on the full path the service calls are issued in a fixed order and
   no stage is revisited: embed, then the classifications one at a time in
   input order of the comments with text, then the summary after all of
   them returned; the shortcut path goes from the start to the result. *)
C23_StagesInOrder ==
    /\ []CallsInOrder
    /\ [][/\ StageRank(pc') >= StageRank(pc)
          /\ (pc = "idle" /\ NumTexts = 0)
             => (pc' = "done" /\ calls' = <<>> /\ result'.kind = "result")]_vars

C23_Witness ==
    /\ pc = "failed" /\ error = "ValueError"
    /\ Len(comments) = 2
    /\ Textless(comments[1]) /\ ~Textless(comments[2])
    /\ calls = <<Call("embed", 0), Call("classify", 2), Call("summary", 0)>>

(* C24: for N >= 2 vectors and a requested k >= 1, each row's novelty is
   computed from the mean of exactly min(k, 10, N - 1) similarities, which
   are the largest similarities to the other rows; the row's own
   similarity to itself is never one of them. *)
C24_NearestNeighbourCount ==
    (ret.done /\ "topk" \in DOMAIN args /\ "emb" \in DOMAIN args)
    => LET n == Len(args.emb)
           want == Min2(Min2(args.topk, 10), n - 1)
           others(i) == {j \in 1..n : j # i}
           slice(i) == ret.v.topk[i]
           \* how often the value x occurs among the similarities of row i to the others
           occurs(i, x) == Cardinality({j \in others(i) : Cos(args.emb[i], args.emb[j]) = x})
           taken(i, x) == Cardinality({q \in DOMAIN slice(i) : slice(i)[q] = x})
       IN  /\ \A i \in 1..n :
                 /\ Len(slice(i)) = want
                 /\ \A q \in DOMAIN slice(i) :
                       /\ slice(i)[q] # NegInf
                       /\ taken(i, slice(i)[q]) <= occurs(i, slice(i)[q])
                       /\ \A j \in others(i) :
                             Cos(args.emb[i], args.emb[j]) > slice(i)[q]
                             => taken(i, Cos(args.emb[i], args.emb[j]))
                                   = occurs(i, Cos(args.emb[i], args.emb[j]))
           /\ ret.v.novelty
                 = MinMaxNorm([i \in 1..n |-> SCALE - (SumSeq(slice(i)) \div Len(slice(i)))])

C24_Witness ==
    /\ ret.done /\ "topk" \in DOMAIN args /\ "emb" \in DOMAIN args
    /\ Len(args.emb) = 12
    /\ args.topk = 12
    /\ Len(ret.v.topk[1]) = 10
    /\ \E i, j \in DOMAIN ret.v.novelty : ret.v.novelty[i] # ret.v.novelty[j]

(* lambda * sim(candidate, query) - (1 - lambda) * the largest similarity of
   the candidate to one already selected, in hundredths of SCALE *)
MmrScore(j, earlier) ==
    LET toSelected == {Cos(args.candidate_vecs[j], args.candidate_vecs[s]) : s \in earlier}
        worst == CHOOSE x \in toSelected : \A y \in toSelected : y <= x
    IN  LambdaPct * Cos(args.candidate_vecs[j], args.query_vec) - (100 - LambdaPct) * worst

(* C25: every pick of mmr after the first is a candidate not yet selected
   that maximizes the MMR score against those selected before it, the
   lowest index winning among equal scores; the list is in selection order
   and has exactly min(k, N) elements. *)
C25_MmrGreedyPicks ==
    (ret.done /\ "candidate_vecs" \in DOMAIN args)
    => LET sel == ret.v
           n == Len(args.candidate_vecs)
       IN  /\ Len(sel) = Min2(args.k, n)
           /\ \A p \in DOMAIN sel : p >= 2 =>
                 LET earlier == {sel[q] : q \in 1..(p - 1)}
                 IN  /\ sel[p] \in (1..n) \ earlier
                     /\ \A j \in (1..n) \ earlier :
                           /\ MmrScore(j, earlier) <= MmrScore(sel[p], earlier)
                           /\ MmrScore(j, earlier) = MmrScore(sel[p], earlier) => sel[p] <= j

C25_Witness ==
    /\ ret.done /\ "candidate_vecs" \in DOMAIN args
    /\ args.query_vec = <<36, 48>>
    /\ args.candidate_vecs = <<<<0, 12>>, <<0, 12>>, <<12, 0>>>>
    /\ args.k = 3
    /\ ret.v = <<1, 3, 2>>

(* C26: a call of OllamaClient.embed or chat makes at most retries + 1
   attempts; a successful attempt ends the call with no further request;
   after the last failed attempt the RuntimeError is raised; and so
   analyze_comments always ends, with its result or with the failure. *)
C26_RetriesTerminate ==
    /\ [](Len(tries) <= Retries + 1)
    /\ [](Len(tries) = Retries + 1 => (pc = "failed" /\ error = "RuntimeError"))
    /\ [][(tries # <<>> /\ tries' = <<>>)
             => (calls' = calls /\ (pc' # pc \/ stance_records' # stance_records))]_vars
    /\ <>Ended

C26_Witness ==
    /\ "overrides" \in DOMAIN args
    /\ pc = "failed" /\ error = "RuntimeError"
    /\ Len(tries) = Retries + 1
    /\ calls = <<Call("embed", 0)>>

(* a timeout or an HTTP 5xx response *)
Transient(r) == r.kind = "timeout" \/ (r.kind = "response" /\ r.status >= 500 /\ r.status < 600)

(* an HTTP error response with a status below 500 *)
ClientError(r) == r.kind = "response" /\ r.status >= 400 /\ r.status < 500

(* C27: fetch_comment_summary sends at most MAX_RETRIES requests; every
   request before the last one sent ended in a timeout or a 5xx response; the
   function ends only by returning the payload parsed from the last response
   or by raising: a client error is raised at once, a timeout or a 5xx is
   raised only when it answers request number MAX_RETRIES. *)
C27_FetchSummaryRetries ==
    LET requests == ret.v.requests
        n == Len(requests)
    IN  /\ n <= MAX_RETRIES
        /\ \A i \in 1..n : requests[i] = args[i]
        /\ \A i \in 1..(n - 1) : Transient(requests[i])
        /\ (~ret.done /\ n > 0) => Transient(requests[n])
        /\ ret.done =>
             /\ n >= 1
             /\ IF ret.exc = "none"
                THEN /\ requests[n].kind = "response" /\ requests[n].status = 200
                     /\ requests[n].json
                     /\ ret.v.payload = requests[n].payload
                ELSE /\ Transient(requests[n]) => n = MAX_RETRIES
                     /\ Transient(requests[n]) =>
                            ret.exc = (IF requests[n].kind = "timeout" THEN "Timeout" ELSE "HTTPError")
                     /\ ClientError(requests[n]) => ret.exc = "HTTPError"
             /\ Transient(requests[n]) => ret.exc # "none"

(* two transient failures, then a third one that is raised *)
C27_Witness ==
    /\ DOMAIN args = 1..MAX_RETRIES
    /\ "requests" \in DOMAIN ret.v
    /\ ret.done /\ ret.exc = "HTTPError"
    /\ ret.v.requests = <<TimeoutResp, Response(500, FALSE, "none"), Response(503, TRUE, "none")>>

(* C28: fetch_webpage_content sends at most MAX_RETRIES requests; no request
   follows a 4xx response or a failure that is not a request error
   (unsupported content type, failed extraction); a request follows only a
   timeout or another request error; with a valid URL it never raises, and a
   failure is returned with success False and the type of the error. *)
C28_FetchPageRetries ==
    ("responses" \in DOMAIN args) =>
    LET requests == ret.v.requests
        n == Len(requests)
    IN  /\ n <= FETCHER_MAX_RETRIES
        /\ \A i \in 1..(n - 1) :
              /\ ~ClientError(requests[i])
              /\ \/ requests[i].kind \in {"timeout", "connection"}
                 \/ requests[i].kind = "response" /\ RaisesForStatus(requests[i].status)
        /\ args.url_valid => ret.exc = "none"
        /\ (ret.done /\ args.url_valid /\ ~ret.v.success) => ret.v.error_type # "none"

(* C29: at every moment of the cleanup script the entries gone from
   stories_dir are directories with a numeric name outside the current story
   ids, and they are the ones listed in removed; with dry_run, with an empty
   set of current ids, or when the ids cannot be obtained, nothing is gone. *)
C29_CleanupKeepsCurrent ==
    ("dry_run" \in DOMAIN args) =>
    LET gone == args.fs \ ret.v.fs
        current == fetch_current_story_ids(args.api, args.file)
    IN  /\ ret.v.fs \subseteq args.fs
        /\ \A e \in gone :
              /\ e.is_dir /\ e.digits
              /\ ~current.null /\ e.name \notin current.v
        /\ {e.name : e \in gone} = {ret.v.removed[i] : i \in DOMAIN ret.v.removed}
        /\ args.dry_run => gone = {}
        /\ (current.null \/ current.v = {}) => gone = {}
        /\ ret.v.phase = "cleanup" => ret.v.current_ids = current.v

(* story 1 is current and stays, 2 is locked and stays, 3 is removed; the
   other entries stay *)
C29_Witness ==
    /\ "dry_run" \in DOMAIN args
    /\ ret.done /\ ret.exc = "none"
    /\ args.fs = EntryVals /\ ~args.dry_run /\ args.locked = {2}
    /\ ~args.api.ok /\ args.file = IdSource(TRUE, {1})
    /\ ret.v.removed = <<3>>
    /\ ret.v.fs = EntryVals \ {Entry(3, TRUE, TRUE)}

(* C30: whatever the interleaving of the writers of one target and a reader,
   what the reader reads is the complete previous content or the complete
   content of one write. *)
C30_ReaderSeesWhole ==
    ("writers" \in DOMAIN args /\ ret.v.rd.pc = "done")
    => ret.v.rd.seen \in {Complete(w) : w \in 0..NumWriters}

=============================================================================
